---- MODULE Spec2Model ----
(***************************************************************************)
(* StudyHub backend: material search (SearchService.search_materials),     *)
(* snippet generation (SearchService.generate_snippet), the text of        *)
(* uploaded files (FileService.fix_hebrew_direction, extract_pdf_text,     *)
(* extract_file_text) and the upload of a material.                        *)
(*                                                                         *)
(* A Python str is a sequence of one-character strings.  An Optional value *)
(* (a nullable column, an optional argument) is a set: {} is None / NULL   *)
(* and {v} is the value v.                                                 *)
(***************************************************************************)
EXTENDS Integers, Sequences, FiniteSets, Bags, TLC

VARIABLES materials, response, snip, fix, extract, uploads, profile, voting, rating, auth, forum, disk

vars == <<materials, response, snip, fix, extract, uploads, profile, voting, rating, auth, forum, disk>>

(***************************************************************************)
(* Bounds of the model.                                                    *)
(***************************************************************************)
MaxMaterials == 2
MaxTextLen == 4
MaxTermLen == 2
MaxContext == 1

(***************************************************************************)
(* Strings.                                                                *)
(***************************************************************************)
None == {}

Some(v) == {v}

Val(o) == CHOOSE v \in o : TRUE

Min(a, b) == IF a < b THEN a ELSE b

Max(a, b) == IF a > b THEN a ELSE b

\* str.lower() on one character.
LowerChar(c) ==
    CASE c = "A" -> "a"
      [] c = "B" -> "b"
      [] c = "T" -> "t"
      [] c = "P" -> "p"
      [] c = "D" -> "d"
      [] c = "F" -> "f"
      [] OTHER -> c

\* str.lower()
Lower(s) == [i \in 1..Len(s) |-> LowerChar(s[i])]

\* s[a:b] for 0 <= a, 0 <= b (Python slice, end clamped to len(s)).
Slice(s, a, b) == SubSeq(s, a + 1, Min(b, Len(s)))

\* The whitespace characters of the model.
Whitespace == {" ", "\t", "\n"}

IsSpace(c) == c \in Whitespace

RECURSIVE LStrip(_)
LStrip(s) == IF s # <<>> /\ IsSpace(Head(s)) THEN LStrip(Tail(s)) ELSE s

RECURSIVE RStrip(_)
RStrip(s) ==
    IF s # <<>> /\ IsSpace(s[Len(s)]) THEN RStrip(SubSeq(s, 1, Len(s) - 1)) ELSE s

\* A faulty variant of Strip: only the leading whitespace is removed.
StripLeadingOnly(s) == LStrip(s)

\* str.strip()
Strip(s) == RStrip(LStrip(s))

\* The pattern re.compile(re.escape(term), re.IGNORECASE) matches text at
\* 0-based offset i.
MatchAt(text, term, i) ==
    /\ i + Len(term) <= Len(text)
    /\ \A k \in 1..Len(term) : LowerChar(text[i + k]) = LowerChar(term[k])

\* The 0-based offsets, at or after offset i, where the pattern matches.
MatchesFrom(text, term, i) ==
    {j \in i..(Len(text) - Len(term)) : MatchAt(text, term, j)}

SetMin(S) == CHOOSE x \in S : \A y \in S : x <= y

SetMax(S) == CHOOSE x \in S : \A y \in S : x >= y

\* A faulty variant of PatternSearch: the rightmost match instead of the leftmost.
PatternSearchLast(text, term) ==
    IF MatchesFrom(text, term, 0) = {} THEN -1
    ELSE SetMax(MatchesFrom(text, term, 0))

\* pattern.search(text): the start of the leftmost match, or -1 when there
\* is none.
PatternSearch(text, term) ==
    IF MatchesFrom(text, term, 0) = {} THEN -1
    ELSE SetMin(MatchesFrom(text, term, 0))

\* pattern.sub(lambda m: f"**{m.group(0)}**", s): every non-overlapping
\* match, left to right, is wrapped in ** markers (term is not empty).
RECURSIVE PatternSub(_, _)
PatternSub(s, term) ==
    IF MatchesFrom(s, term, 0) = {} THEN s
    ELSE LET i == SetMin(MatchesFrom(s, term, 0))
         IN  SubSeq(s, 1, i)
             \o <<"*", "*">> \o SubSeq(s, i + 1, i + Len(term)) \o <<"*", "*">>
             \o PatternSub(SubSeq(s, i + Len(term) + 1, Len(s)), term)

\* search_term.lower() in text.lower()  (Python substring test)
Contains(text, term) ==
    LET haystack == Lower(text)
        needle == Lower(term)
    IN  \E i \in 0..(Len(text) - Len(term)) :
            \A k \in 1..Len(term) : haystack[i + k] = needle[k]

Ellipsis == <<".", ".", ".">>

(***************************************************************************)
(* SearchService.generate_snippet                                          *)
(***************************************************************************)

\* start_pos = match.start(), end_pos = match.end()
start_pos(text, search_term) == PatternSearch(text, search_term)

end_pos(text, search_term) == start_pos(text, search_term) + Len(search_term)

\* A faulty variant of snippet_start: one character too many before the match.
snippet_start_one_more(text, search_term, context_length) ==
    Max(0, start_pos(text, search_term) - context_length - 1)

snippet_start(text, search_term, context_length) ==
    Max(0, start_pos(text, search_term) - context_length)

snippet_end(text, search_term, context_length) ==
    Min(Len(text), end_pos(text, search_term) + context_length)

\* The snippet before highlighting: the window with its ellipses.
snippet_window(text, search_term, context_length) ==
    LET s == snippet_start(text, search_term, context_length)
        e == snippet_end(text, search_term, context_length)
    IN  (IF s > 0 THEN Ellipsis ELSE <<>>)
        \o Slice(text, s, e)
        \o (IF e < Len(text) THEN Ellipsis ELSE <<>>)

\* A faulty variant of generate_snippet: the guard tests text only, and an empty
\* search_term falls through to the beginning-of-text branch.
generate_snippet_text_guard_only(text, search_term, context_length) ==
    IF text = <<>> THEN <<>>
    ELSE LET snippet == Strip(Slice(text, 0, context_length * 2))
         IN  IF Len(text) > context_length * 2 THEN snippet \o Ellipsis ELSE snippet

generate_snippet(text, search_term, context_length) ==
    IF text = <<>> \/ search_term = <<>> THEN <<>>
    ELSE IF start_pos(text, search_term) < 0
         THEN LET snippet == Strip(Slice(text, 0, context_length * 2))
              IN  IF Len(text) > context_length * 2
                  THEN snippet \o Ellipsis
                  ELSE snippet
         ELSE Strip(PatternSub(snippet_window(text, search_term, context_length),
                               search_term))

(***************************************************************************)
(* A call of generate_snippet.  snip holds the arguments, the position of  *)
(* the call and, once it has returned, its locals and its result.          *)
(***************************************************************************)
SnAlphabet == {"a", "A", "b", " "}

SnTermAlphabet == {"a", "b"}

SeqsUpTo(alphabet, n) == UNION {[1..k -> alphabet] : k \in 0..n}

\* Texts and terms that hold the character of the ellipsis.
SnDotAlphabet == {"a", "."}

SnTexts == SeqsUpTo(SnAlphabet, MaxTextLen) \cup SeqsUpTo(SnDotAlphabet, MaxTextLen)

SnTerms == SeqsUpTo(SnTermAlphabet, MaxTermLen) \cup SeqsUpTo(SnDotAlphabet, MaxTermLen)

SnContexts == 0..MaxContext

QuickBrownFox ==
    <<"T", "h", "e", " ", "q", "u", "i", "c", "k", " ",
      "b", "r", "o", "w", "n", " ", "f", "o", "x">>

Brown == <<"b", "r", "o", "w", "n">>

NoCall ==
    [pc |-> "idle", text |-> <<>>, search_term |-> <<>>, context_length |-> 0,
     matched |-> FALSE, snippet_start |-> 0, snippet_end |-> 0,
     snippet |-> <<>>, result |-> <<>>]

SnippetCall(text, search_term, context_length) ==
    [NoCall EXCEPT !.pc = "call", !.text = text, !.search_term = search_term,
                   !.context_length = context_length]

\* The call generate_snippet("The quick brown fox", "brown", 3).
ExampleCalls == {SnippetCall(QuickBrownFox, Brown, 3)}

\* generate_snippet returns at line 30 (empty text or term).
GenerateSnippetEmpty ==
    /\ snip.pc = "call"
    /\ snip.text = <<>> \/ snip.search_term = <<>>
    /\ snip' = [snip EXCEPT
            !.pc = "done",
            !.result = generate_snippet(snip.text, snip.search_term,
                                        snip.context_length)]
    /\ UNCHANGED <<materials, response, fix, extract, uploads, profile, voting, rating, auth, forum, disk>>

\* generate_snippet returns at line 39 (no match).
GenerateSnippetNoMatch ==
    /\ snip.pc = "call"
    /\ snip.text # <<>> /\ snip.search_term # <<>>
    /\ start_pos(snip.text, snip.search_term) < 0
    /\ snip' = [snip EXCEPT
            !.pc = "done",
            !.result = generate_snippet(snip.text, snip.search_term,
                                        snip.context_length)]
    /\ UNCHANGED <<materials, response, fix, extract, uploads, profile, voting, rating, auth, forum, disk>>

\* generate_snippet returns at line 65 (match found).
GenerateSnippetMatch ==
    /\ snip.pc = "call"
    /\ snip.text # <<>> /\ snip.search_term # <<>>
    /\ start_pos(snip.text, snip.search_term) >= 0
    /\ snip' = [snip EXCEPT
            !.pc = "done",
            !.matched = TRUE,
            !.snippet_start = snippet_start(snip.text, snip.search_term,
                                            snip.context_length),
            !.snippet_end = snippet_end(snip.text, snip.search_term,
                                        snip.context_length),
            !.snippet = snippet_window(snip.text, snip.search_term,
                                       snip.context_length),
            !.result = generate_snippet(snip.text, snip.search_term,
                                        snip.context_length)]
    /\ UNCHANGED <<materials, response, fix, extract, uploads, profile, voting, rating, auth, forum, disk>>

(***************************************************************************)
(* The material store read by search_materials (the materials table).      *)
(* A row is a Material with the attributes the search reads.               *)
(***************************************************************************)
Material(title, description, file_name, file_content_text, course_id, material_type, created_at, average_rating) ==
    [title |-> title, description |-> description, file_name |-> file_name,
     file_content_text |-> file_content_text, course_id |-> course_id,
     material_type |-> material_type, created_at |-> created_at,
     average_rating |-> average_rating]

Pad(n) == [i \in 1..n |-> "b"]

\* Rows that differ in which text fields are present and what they hold.
TextRows ==
    {Material(t, d, f, c, 1, "summaries", 1, 0) :
        t \in {<<"b", "A">>, <<"_">>},
        d \in {None, Some(<<"A">>)},
        f \in {None, Some(<<"_">>)},
        c \in {None, Some(<<"a", "b">>)}}

\* Rows that differ in course, type, creation time and rating.
AttributeRows ==
    {Material(<<"b", "A">>, None, None, None, 2, "summaries", 2, 0),
     Material(<<"b", "A">>, None, None, None, 1, "homework", 1, 4)}

\* Rows whose texts are longer than the snippet window around their first
\* character (50 + 2 and 100 + 2 characters).
LongRows ==
    {Material(<<"a">> \o Pad(50 + 1), None, None,
              Some(<<"_">> \o Pad(100 + 1)), 1, "summaries", 1, 0),
     Material(<<"b", "b", "b">>, Some(<<"a">> \o Pad(100 + 1)),
              Some(<<"_">> \o Pad(50 + 1)), None, 1, "summaries", 1, 0)}

Catalogue == TextRows \cup AttributeRows

\* The stores of at most n rows of the catalogue.
RECURSIVE StoresUpTo(_)
StoresUpTo(n) ==
    IF n = 0 THEN {{}}
    ELSE LET smaller == StoresUpTo(n - 1)
         IN  smaller \cup {s \cup {m} : s \in smaller, m \in Catalogue}

\* The stores that hold rows with long texts.
LongStores ==
    {{l} : l \in LongRows} \cup {LongRows}
    \cup {{l, m} : l \in LongRows, m \in TextRows}

Stores == StoresUpTo(MaxMaterials) \cup LongStores

\* Rows without the character _ whose description or title is longer than
\* the fallback snippet (100 + 2 characters), and a short row.
FallbackRows ==
    {Material(<<"b", "b">>, Some(<<"a">> \o Pad(100 + 1)), None, None,
              1, "summaries", 1, 0),
     Material(<<"a">> \o Pad(100 + 1), None, None, None, 1, "summaries", 2, 0),
     Material(<<"b", "A">>, Some(<<"A">>), None, None, 1, "summaries", 3, 0)}

FallbackStores == SUBSET FallbackRows

(***************************************************************************)
(* The query of search_materials, as the database evaluates it.            *)
(***************************************************************************)

\* text ILIKE pattern on non-NULL text: % matches any run of characters,
\* _ any one character, every other character itself, ignoring case (the
\* alphabets of the model hold no escape character).  LikeFrom matches
\* text from its i-th character against pattern from its j-th.
RECURSIVE LikeFrom(_, _, _, _)
LikeFrom(text, i, pattern, j) ==
    IF j > Len(pattern) THEN i > Len(text)
    ELSE IF pattern[j] = "%"
         THEN \/ j = Len(pattern)
              \/ \E k \in i..(Len(text) + 1) : LikeFrom(text, k, pattern, j + 1)
         ELSE /\ i <= Len(text)
              /\ pattern[j] = "_" \/ LowerChar(pattern[j]) = LowerChar(text[i])
              /\ LikeFrom(text, i + 1, pattern, j + 1)

LikeMatch(text, pattern) == LikeFrom(text, 1, pattern, 1)

\* column.ilike(pattern): NULL (not true) on a NULL column.
ilike(column, pattern) == column # None /\ LikeMatch(Val(column), pattern)

\* search_pattern = f"%{search_term}%"
search_pattern(search_term) == <<"%">> \o search_term \o <<"%">>

\* The or_(...) filter of lines 99-106.
TextFilter(m, search_term) ==
    LET p == search_pattern(search_term)
    IN  \/ ilike(Some(m.title), p)
        \/ ilike(m.description, p)
        \/ ilike(m.file_name, p)
        \/ ilike(m.file_content_text, p)

\* A faulty variant of CourseFilter: "if course_id:" instead of "is not None".
CourseFilterTruthy(m, course_id) ==
    (course_id # None /\ Val(course_id) # 0) => m.course_id = Val(course_id)

\* Lines 109-110.
CourseFilter(m, course_id) ==
    course_id # None => m.course_id = Val(course_id)

\* Lines 112-113.
TypeFilter(m, material_type) ==
    material_type # None => m.material_type = Val(material_type)

\* The rows the filtered query selects, lines 99-113.
Candidates(store, search_term, course_id, material_type) ==
    {m \in {t \in store : TextFilter(t, search_term)} :
        CourseFilter(m, course_id) /\ TypeFilter(m, material_type)}

\* The case(...) + case(...) + case(...) + case(...) of lines 123-140.
relevance_score(m, search_term) ==
    LET p == search_pattern(search_term)
    IN  (IF ilike(Some(m.title), p) THEN 10 ELSE 0)
        + (IF ilike(m.description, p) THEN 5 ELSE 0)
        + (IF ilike(m.file_name, p) THEN 3 ELSE 0)
        + (IF ilike(m.file_content_text, p) THEN 1 ELSE 0)

\* The ORDER BY ... DESC expression chosen by sort_by; no ORDER BY (every
\* row the same key) for any other value.
OrderKey(m, search_term, sort_by) ==
    CASE sort_by = "date" -> m.created_at
      [] sort_by = "rating" -> m.average_rating
      [] sort_by = "relevance" -> relevance_score(m, search_term)
      [] OTHER -> 0

\* The orders in which the database may return rows: every arrangement
\* that is descending in the key (rows with equal keys come in any order).
\* key maps each row to its ORDER BY value.
Orderings(rows, key) ==
    {p \in [1..Cardinality(rows) -> rows] :
        /\ \A i, j \in DOMAIN p : i # j => p[i] # p[j]
        /\ \A i, j \in DOMAIN p : i < j => key[p[i]] >= key[p[j]]}

\* A faulty variant of QueryAll: LIMIT applied to the unordered rows, which are
\* sorted afterwards.
QueryAllLimitFirst(rows, key, limit) ==
    UNION {Orderings(kept, key) :
              kept \in {k \in SUBSET rows :
                           Cardinality(k) = Min(limit, Cardinality(rows))}}

\* A faulty variant of QueryAll: no LIMIT.
QueryAllNoLimit(rows, key, limit) == Orderings(rows, key)

\* materials_query.order_by(...).limit(limit).all(), lines 115-146.
QueryAll(rows, key, limit) ==
    {SubSeq(p, 1, Min(limit, Len(p))) : p \in Orderings(rows, key)}

(***************************************************************************)
(* The projection to SearchResult objects, lines 149-195.                  *)
(***************************************************************************)

\* "column and search_term.lower() in column.lower()" on a nullable column.
FieldMatches(column, search_term) ==
    /\ column # None
    /\ Val(column) # <<>>
    /\ Contains(Val(column), search_term)

\* A faulty variant of MatchWalk: description tested before title.
MatchWalkDescriptionFirst(m, search_term) ==
    IF FieldMatches(m.description, search_term) THEN "description"
    ELSE IF FieldMatches(Some(m.title), search_term) THEN "title"
    ELSE IF FieldMatches(m.file_name, search_term) THEN "filename"
    ELSE IF FieldMatches(m.file_content_text, search_term) THEN "content"
    ELSE "none"

\* The branch the if / elif chain of lines 156-173 takes.
MatchWalk(m, search_term) ==
    IF FieldMatches(Some(m.title), search_term) THEN "title"
    ELSE IF FieldMatches(m.description, search_term) THEN "description"
    ELSE IF FieldMatches(m.file_name, search_term) THEN "filename"
    ELSE IF FieldMatches(m.file_content_text, search_term) THEN "content"
    ELSE "none"

\* Lines 176-179.
FallbackSnippet(m) ==
    LET snippet == IF m.description # None /\ Val(m.description) # <<>>
                   THEN Slice(Val(m.description), 0, 100)
                   ELSE m.title
    IN  IF Len(snippet) > 100 THEN snippet \o Ellipsis ELSE snippet

SearchResult(m, search_term) ==
    LET branch == MatchWalk(m, search_term)
        snippet ==
            CASE branch = "title" -> generate_snippet(m.title, search_term, 50)
              [] branch = "description" ->
                    generate_snippet(Val(m.description), search_term, 100)
              [] branch = "filename" ->
                    generate_snippet(Val(m.file_name), search_term, 50)
              [] branch = "content" ->
                    generate_snippet(Val(m.file_content_text), search_term, 100)
              [] OTHER -> <<>>
    IN  [material |-> m,
         snippet |-> IF snippet = <<>> THEN FallbackSnippet(m) ELSE snippet,
         match_type |-> IF branch = "none" THEN "content" ELSE branch]

(***************************************************************************)
(* SearchService.search_materials                                          *)
(***************************************************************************)
Queries == {<<>>, <<" ">>, <<"a">>, <<" ", "_", " ">>}

\* limit (1..20 at the route): the values up to the size of the store.
Limits == 1..MaxMaterials

CourseIds == {None, Some(0), Some(1)}

MaterialTypes == {None, Some("homework")}

SortBys == {"relevance", "date", "rating", "name"}

NoResponse ==
    [status |-> "none", query |-> <<>>, limit |-> 1, course_id |-> None,
     material_type |-> None, sort_by |-> "relevance", results |-> <<>>]

Response(query, limit, course_id, material_type, sort_by, results) ==
    [status |-> "returned", query |-> query, limit |-> limit,
     course_id |-> course_id, material_type |-> material_type,
     sort_by |-> sort_by, results |-> results]

\* A faulty variant of EmptyQuery: the query is not stripped before the test.
EmptyQueryNoStrip(query) == query = <<>>

\* "not query or not query.strip()", line 92.
EmptyQuery(query) == query = <<>> \/ Strip(query) = <<>>

\* search_materials returns [] at line 93.
SearchMaterialsEmpty ==
    \E query \in Queries, limit \in Limits, course_id \in CourseIds,
       material_type \in MaterialTypes, sort_by \in SortBys :
        /\ response.status = "none"
        /\ EmptyQuery(query)
        /\ response' = Response(query, limit, course_id, material_type,
                                sort_by, <<>>)
        /\ UNCHANGED <<materials, snip, fix, extract, uploads, profile, voting, rating, auth, forum, disk>>

\* search_materials runs the query and returns the results, lines 95-195.
\* What depends on the search term only is evaluated once for the term:
\* matching holds the rows that pass the text filter, key their ORDER BY
\* values under each sort_by, result their SearchResult objects.
SearchMaterialsQuery ==
    /\ response.status = "none"
    /\ \E query \in Queries :
        /\ ~EmptyQuery(query)
        /\ LET search_term == Strip(query)
               matching == Candidates(materials, search_term, None, None)
               key == [s \in SortBys |->
                         [m \in matching |-> OrderKey(m, search_term, s)]]
               result == [m \in matching |-> SearchResult(m, search_term)]
           IN  \E limit \in Limits, course_id \in CourseIds,
                  material_type \in MaterialTypes, sort_by \in SortBys :
                   \E found \in QueryAll(Candidates(matching, search_term,
                                                     course_id, material_type),
                                          key[sort_by], limit) :
                       response' =
                           Response(query, limit, course_id, material_type,
                                    sort_by,
                                    [i \in 1..Len(found) |-> result[found[i]]])
    /\ UNCHANGED <<materials, snip, fix, extract, uploads, profile, voting, rating, auth, forum, disk>>

\* A faulty variant of SearchReturned: the materials that were returned are
\* taken out of the store.
SearchReturnedConsuming ==
    /\ response.status = "returned"
    /\ response' = NoResponse
    /\ materials' = materials \ {response.results[i].material :
                                    i \in DOMAIN response.results}
    /\ UNCHANGED <<snip, fix, extract, uploads, profile, voting, rating, auth, forum, disk>>

\* The caller has taken the result list; the next search can start.
SearchReturned ==
    /\ response.status = "returned"
    /\ response' = NoResponse
    /\ UNCHANGED <<materials, snip, fix, extract, uploads, profile, voting, rating, auth, forum, disk>>

(***************************************************************************)
(* FileService.fix_hebrew_direction                                        *)
(***************************************************************************)

\* Characters in the range U+0590 .. U+05FF: letters between alef (U+05D0)
\* and tav (U+05EA), each one character of a string, written by name.
HebrewChars ==
    {"alef", "bet", "he", "vav", "het", "tet", "kaf", "lamed", "mem", "ayin",
     "resh", "tav"}

IsHebrew(c) == c \in HebrewChars

\* Letters outside that range.
LatinChars == {"a"}

\* \w of the re module: the letters are word characters, whitespace is not.
IsWord(c) == c \in HebrewChars \cup LatinChars

\* any('\u0590' <= c <= '\u05FF' for c in s)
has_hebrew(s) == \E k \in 1..Len(s) : IsHebrew(s[k])

\* s[::-1]
Reverse(s) == [k \in 1..Len(s) |-> s[Len(s) + 1 - k]]

\* ''.join(parts)
RECURSIVE Join(_)
Join(parts) == IF parts = <<>> THEN <<>> ELSE Head(parts) \o Join(Tail(parts))

\* text.split('\n')
RECURSIVE SplitLines(_)
SplitLines(text) ==
    LET breaks == {k \in 1..Len(text) : text[k] = "\n"}
    IN  IF breaks = {} THEN <<text>>
        ELSE <<SubSeq(text, 1, SetMin(breaks) - 1)>>
             \o SplitLines(SubSeq(text, SetMin(breaks) + 1, Len(text)))

\* '\n'.join(lines)
RECURSIVE JoinLines(_)
JoinLines(lines) ==
    IF Len(lines) <= 1 THEN Join(lines)
    ELSE Head(lines) \o <<"\n">> \o JoinLines(Tail(lines))

\* re.split(r'(\s+)', line): the runs of other characters and the runs of
\* whitespace between them, in order (an empty string where the line starts
\* or ends with whitespace).
RECURSIVE Tokens(_)
Tokens(line) ==
    LET spaces == {k \in 1..Len(line) : IsSpace(line[k])}
    IN  IF spaces = {} THEN <<line>>
        ELSE LET i == SetMin(spaces)
                 j == SetMax({k \in i..Len(line) :
                                \A l \in i..k : IsSpace(line[l])})
             IN  <<SubSeq(line, 1, i - 1), SubSeq(line, i, j)>>
                 \o Tokens(SubSeq(line, j + 1, Len(line)))

\* token and any(...): '' for the empty token, else True or False.
token_has_hebrew(token) ==
    IF token = <<>> THEN "''"
    ELSE IF has_hebrew(token) THEN "True" ELSE "False"

\* The loop of lines 56-68 from the k-th token on, and lines 71-72: the
\* segments (is_hebrew_segment, current_segment) of the line.
RECURSIVE SegmentLoop(_, _, _, _, _)
SegmentLoop(tokens, k, segments, current_segment, is_hebrew_segment) ==
    IF k > Len(tokens)
    THEN IF current_segment # <<>>
         THEN Append(segments, [is_hebrew |-> is_hebrew_segment,
                                tokens |-> current_segment])
         ELSE segments
    ELSE LET token == tokens[k]
         IN  IF is_hebrew_segment = "None"
             THEN SegmentLoop(tokens, k + 1, segments,
                              Append(current_segment, token),
                              token_has_hebrew(token))
             ELSE IF /\ is_hebrew_segment # token_has_hebrew(token)
                     /\ Strip(token) # <<>>
                  THEN SegmentLoop(tokens, k + 1,
                                   Append(segments,
                                          [is_hebrew |-> is_hebrew_segment,
                                           tokens |-> current_segment]),
                                   <<token>>, token_has_hebrew(token))
                  ELSE SegmentLoop(tokens, k + 1, segments,
                                   Append(current_segment, token),
                                   is_hebrew_segment)

Segments(line) == SegmentLoop(Tokens(line), 1, <<>>, <<>>, "None")

\* A faulty variant of FixSegment: the tokens of a Hebrew segment are put in
\* reverse order but their characters are not reversed.
FixSegmentTokensOnly(segment) ==
    IF segment.is_hebrew = "True" THEN Reverse(segment.tokens)
    ELSE segment.tokens

\* Lines 77-89 for one segment: the tokens of a Hebrew segment in reverse
\* order, each token that holds a Hebrew character reversed.
FixSegment(segment) ==
    IF segment.is_hebrew = "True"
    THEN [k \in 1..Len(segment.tokens) |->
            LET token == Reverse(segment.tokens)[k]
            IN  IF token # <<>> /\ has_hebrew(token) THEN Reverse(token)
                ELSE token]
    ELSE segment.tokens

\* fixed_tokens after the loop of lines 76-89.
fixed_tokens(line) ==
    LET segments == Segments(line)
    IN  Join([k \in 1..Len(segments) |-> FixSegment(segments[k])])

\* The last index of the run of Hebrew characters that starts at index i
\* (i - 1 when line[i] is not Hebrew).
RunEnd(line, i) ==
    SetMax({k \in (i - 1)..Len(line) : \A l \in i..k : IsHebrew(line[l])})

\* \b between the characters at indices p and p + 1.
WordBoundary(line, p) ==
    (p >= 1 /\ p <= Len(line) /\ IsWord(line[p]))
        # (p + 1 >= 1 /\ p + 1 <= Len(line) /\ IsWord(line[p + 1]))

\* ([\u0590-\u05FF]{2,}) ([\u0590-\u05FF]{1})\b matches at index i.
TrailingLetterAt(line, i) ==
    LET e == RunEnd(line, i)
    IN  /\ e - i + 1 >= 2
        /\ e + 2 <= Len(line)
        /\ line[e + 1] = " "
        /\ IsHebrew(line[e + 2])
        /\ WordBoundary(line, e + 2)

\* A faulty variant of merge_trailing_letter: the single letter is dropped with
\* the space.
merge_trailing_letter_dropped(line, pos) ==
    LET starts == {i \in pos..Len(line) : TrailingLetterAt(line, i)}
    IN  IF starts = {} THEN SubSeq(line, pos, Len(line))
        ELSE SubSeq(line, pos, RunEnd(line, SetMin(starts)))

\* Line 95, re.sub(..., r'\1\2', fixed_line) from index pos on: in every
\* non-overlapping match, left to right, the space is removed.
RECURSIVE merge_trailing_letter(_, _)
merge_trailing_letter(line, pos) ==
    LET starts == {i \in pos..Len(line) : TrailingLetterAt(line, i)}
    IN  IF starts = {} THEN SubSeq(line, pos, Len(line))
        ELSE LET e == RunEnd(line, SetMin(starts))
             IN  SubSeq(line, pos, e) \o <<line[e + 2]>>
                 \o merge_trailing_letter(line, e + 3)

\* \b([\u0590-\u05FF]{1}) ([\u0590-\u05FF]{2,}) matches at index i.
LeadingLetterAt(line, i) ==
    /\ WordBoundary(line, i - 1)
    /\ IsHebrew(line[i])
    /\ i + 1 <= Len(line)
    /\ line[i + 1] = " "
    /\ RunEnd(line, i + 2) - (i + 2) + 1 >= 2

\* A faulty variant of merge_leading_letter: no space is removed.
merge_leading_letter_kept(line, pos) == SubSeq(line, pos, Len(line))

\* Line 96, re.sub(..., r'\1\2', fixed_line) from index pos on.
RECURSIVE merge_leading_letter(_, _)
merge_leading_letter(line, pos) ==
    LET starts == {i \in pos..Len(line) : LeadingLetterAt(line, i)}
    IN  IF starts = {} THEN SubSeq(line, pos, Len(line))
        ELSE LET i == SetMin(starts)
                 e == RunEnd(line, i + 2)
             IN  SubSeq(line, pos, i) \o SubSeq(line, i + 2, e)
                 \o merge_leading_letter(line, e + 1)

\* re.sub(r' +', ' ', line)
RECURSIVE CollapseSpaces(_)
CollapseSpaces(line) ==
    IF Len(line) < 2 THEN line
    ELSE IF line[1] = " " /\ line[2] = " " THEN CollapseSpaces(Tail(line))
         ELSE <<line[1]>> \o CollapseSpaces(Tail(line))

\* Lines 48-100: the fixed line of a line that holds a Hebrew character.
fixed_line(line) ==
    Strip(CollapseSpaces(
        merge_leading_letter(
            merge_trailing_letter(Join(fixed_tokens(line)), 1), 1)))

\* A faulty variant of fix_line: every line is rebuilt, with or without Hebrew.
fix_line_always(line) == fixed_line(line)

\* Lines 41-103 for one line.
fix_line(line) == IF has_hebrew(line) THEN fixed_line(line) ELSE line

fix_hebrew_direction(text) ==
    IF text = <<>> THEN text
    ELSE LET lines == SplitLines(text)
         IN  JoinLines([k \in 1..Len(lines) |-> fix_line(lines[k])])

(***************************************************************************)
(* A call of fix_hebrew_direction.  fix holds the argument, the position   *)
(* of the call and, once it has returned, its result.                      *)
(***************************************************************************)
MaxFixLen == 5

\* The Hebrew letters of the texts that are enumerated.
FixLetters == {"alef", "bet"}

FixAlphabet == FixLetters \cup LatinChars \cup Whitespace

\* "\u05EA \u05D5\u05DB\u05E8\u05E2\u05DE\u05D1 \u05EA\u05D5\u05D8\u05DC\u05D7\u05D4":
\* two words as a PDF extraction gives them, the last letter of the second
\* word split off.
SplitLetterText ==
    <<"tav", " ", "vav", "kaf", "resh", "ayin", "mem", "bet", " ",
      "tav", "vav", "tet", "lamed", "het", "he">>

\* A single letter between two words, and a single letter before two words.
MergeTexts ==
    {SplitLetterText,
     <<"alef", "bet", " ", "bet", " ", "alef", "bet">>,
     <<"alef", "bet", " ", "bet", " ", "bet", "alef", " ", "alef">>,
     <<"alef", "bet", "\t", "bet", " ", "alef", "bet">>}

FixTexts == SeqsUpTo(FixAlphabet, MaxFixLen) \cup MergeTexts

NoFix == [pc |-> "idle", text |-> <<>>, result |-> <<>>]

FixCall(text) == [NoFix EXCEPT !.pc = "call", !.text = text]

\* fix_hebrew_direction returns at line 35 (empty text).
FixHebrewDirectionEmpty ==
    /\ fix.pc = "call"
    /\ fix.text = <<>>
    /\ fix' = [fix EXCEPT !.pc = "done",
                          !.result = fix_hebrew_direction(fix.text)]
    /\ UNCHANGED <<materials, response, snip, extract, uploads, profile, voting, rating, auth, forum, disk>>

\* fix_hebrew_direction returns at line 105, no line held a Hebrew
\* character (line 103 for every line).
FixHebrewDirectionPlain ==
    /\ fix.pc = "call"
    /\ fix.text # <<>>
    /\ ~has_hebrew(fix.text)
    /\ fix' = [fix EXCEPT !.pc = "done",
                          !.result = fix_hebrew_direction(fix.text)]
    /\ UNCHANGED <<materials, response, snip, extract, uploads, profile, voting, rating, auth, forum, disk>>

\* fix_hebrew_direction returns at line 105, some line held a Hebrew
\* character (lines 48-100 for that line).
FixHebrewDirectionHebrew ==
    /\ fix.pc = "call"
    /\ has_hebrew(fix.text)
    /\ fix' = [fix EXCEPT !.pc = "done",
                          !.result = fix_hebrew_direction(fix.text)]
    /\ UNCHANGED <<materials, response, snip, extract, uploads, profile, voting, rating, auth, forum, disk>>

(***************************************************************************)
(* FileService.extract_pdf_text and FileService.extract_file_text          *)
(*                                                                         *)
(* A file is missing, unreadable (pdfplumber.open raises) or a PDF of      *)
(* pages; page.extract_text() raises or returns None or a string.  A call  *)
(* returns [raised, value]: raised says an exception left the call, value  *)
(* is the Optional[str] it returned.                                       *)
(***************************************************************************)
MaxPages == 2

Page(raises, text) == [raises |-> raises, text |-> text]

\* What page.extract_text() does for a page.
PageResults ==
    {Page(TRUE, None)}
    \cup {Page(FALSE, t) :
            t \in {None, Some(<<>>), Some(<<" ">>), Some(<<"a">>),
                   Some(<<"bet", " ", "alef">>)}}

File(state, pages) == [state |-> state, pages |-> pages]

Files ==
    {File("missing", <<>>), File("unreadable", <<>>)}
    \cup {File("pdf", ps) : ps \in SeqsUpTo(PageResults, MaxPages)}

Extensions ==
    {<<".", "p", "d", "f">>, <<".", "P", "D", "F">>, <<".", "d", "f">>, <<>>}

Returns(value) == [raised |-> FALSE, value |-> value]

Raises == [raised |-> TRUE, value |-> None]

\* text_content after the loop of lines 128-131: the page texts that are
\* neither None nor empty.
RECURSIVE text_content(_)
text_content(pages) ==
    IF pages = <<>> THEN <<>>
    ELSE IF Head(pages).text # None /\ Val(Head(pages).text) # <<>>
         THEN <<Val(Head(pages).text)>> \o text_content(Tail(pages))
         ELSE text_content(Tail(pages))

\* full_text = "\n".join(text_content)
full_text(pages) == JoinLines(text_content(pages))

\* The body of the try statement of extract_pdf_text, lines 119-144.
extract_pdf_text_try(file) ==
    IF file.state = "missing" THEN Returns(None)
    ELSE IF file.state = "unreadable" THEN Raises
    ELSE IF \E k \in 1..Len(file.pages) : file.pages[k].raises THEN Raises
    ELSE IF Strip(full_text(file.pages)) = <<>> THEN Returns(None)
    ELSE Returns(Some(fix_hebrew_direction(full_text(file.pages))))

\* A faulty variant of extract_pdf_text: no except clause, an exception of the
\* body leaves the call.
extract_pdf_text_no_except(file) == extract_pdf_text_try(file)

\* extract_pdf_text: except Exception returns None (lines 146-148).
extract_pdf_text(file) ==
    IF extract_pdf_text_try(file).raised THEN Returns(None)
    ELSE extract_pdf_text_try(file)

\* extract_file_text, lines 163-174.
extract_file_text(file, file_extension) ==
    IF Lower(file_extension) = <<".", "p", "d", "f">> THEN extract_pdf_text(file)
    ELSE Returns(None)

(***************************************************************************)
(* A call of extract_file_text.  extract holds the arguments (the file at  *)
(* file_path and the extension), the position of the call and, once it is  *)
(* over, what it returned and whether it raised.                           *)
(***************************************************************************)
NoExtract ==
    [pc |-> "idle", file |-> File("missing", <<>>), file_extension |-> <<>>,
     raised |-> FALSE, result |-> None]

ExtractCall(file, file_extension) ==
    [NoExtract EXCEPT !.pc = "call", !.file = file,
                      !.file_extension = file_extension]

\* The call of extract is over with the outcome of extract_file_text.
ExtractDone ==
    LET outcome == extract_file_text(extract.file, extract.file_extension)
    IN  extract' = [extract EXCEPT !.pc = "done",
                                   !.raised = outcome.raised,
                                   !.result = outcome.value]

\* extract_file_text returns at line 174 (not a PDF extension).
ExtractFileTextUnsupported ==
    /\ extract.pc = "call"
    /\ Lower(extract.file_extension) # <<".", "p", "d", "f">>
    /\ ExtractDone
    /\ UNCHANGED <<materials, response, snip, fix, uploads, profile, voting, rating, auth, forum, disk>>

\* extract_pdf_text returns at line 123 (no file at file_path).
ExtractPdfTextMissing ==
    /\ extract.pc = "call"
    /\ Lower(extract.file_extension) = <<".", "p", "d", "f">>
    /\ extract.file.state = "missing"
    /\ ExtractDone
    /\ UNCHANGED <<materials, response, snip, fix, uploads, profile, voting, rating, auth, forum, disk>>

\* extract_pdf_text ends in the except clause, lines 146-148 (opening the
\* file or extracting a page raised).
ExtractPdfTextFailed ==
    /\ extract.pc = "call"
    /\ Lower(extract.file_extension) = <<".", "p", "d", "f">>
    /\ extract_pdf_text_try(extract.file).raised
    /\ ExtractDone
    /\ UNCHANGED <<materials, response, snip, fix, uploads, profile, voting, rating, auth, forum, disk>>

\* extract_pdf_text returns at line 138 (no text on any page).
ExtractPdfTextBlank ==
    /\ extract.pc = "call"
    /\ Lower(extract.file_extension) = <<".", "p", "d", "f">>
    /\ extract.file.state = "pdf"
    /\ ~extract_pdf_text_try(extract.file).raised
    /\ Strip(full_text(extract.file.pages)) = <<>>
    /\ ExtractDone
    /\ UNCHANGED <<materials, response, snip, fix, uploads, profile, voting, rating, auth, forum, disk>>

\* extract_pdf_text returns the text at line 144.
ExtractPdfTextReturned ==
    /\ extract.pc = "call"
    /\ Lower(extract.file_extension) = <<".", "p", "d", "f">>
    /\ extract.file.state = "pdf"
    /\ ~extract_pdf_text_try(extract.file).raised
    /\ Strip(full_text(extract.file.pages)) # <<>>
    /\ ExtractDone
    /\ UNCHANGED <<materials, response, snip, fix, uploads, profile, voting, rating, auth, forum, disk>>

(***************************************************************************)
(* The upload of a material: the route upload_material,                    *)
(* MaterialService.save_file and MaterialService.create_material.          *)
(* uploads is the log of the requests answered so far: the status of each, *)
(* the row it created and the file it carried.                             *)
(***************************************************************************)
ALLOWED_EXTENSIONS ==
    {<<".", "p", "d", "f">>, <<".", "d", "o", "c", "x">>,
     <<".", "p", "p", "t", "x">>, <<".", "d", "o", "c">>,
     <<".", "p", "p", "t">>, <<".", "t", "x", "t">>, <<".", "j", "p", "g">>,
     <<".", "j", "p", "e", "g">>, <<".", "p", "n", "g">>}

\* Path(filename).suffix: from the last dot on, if it is not the first
\* character.
Suffix(filename) ==
    LET dots == {k \in 2..Len(filename) : filename[k] = "."}
    IN  IF dots = {} THEN <<>>
        ELSE SubSeq(filename, SetMax(dots), Len(filename))

UploadFile(filename, body) == [filename |-> filename, body |-> body]

\* The files of the upload requests: a PDF with the text "a", a PDF with an
\* upper-case extension and a Hebrew text, and a file of a type that is
\* not allowed.
UploadedFiles ==
    {UploadFile(<<"b", ".", "p", "d", "f">>,
                File("pdf", <<Page(FALSE, Some(<<"a">>))>>)),
     UploadFile(<<"b", ".", "P", "D", "F">>,
                File("pdf", <<Page(FALSE, Some(<<"bet", " ", "a">>))>>)),
     UploadFile(<<"b", ".", "e", "x", "e">>, File("unreadable", <<>>))}

\* The (file, external_url) pairs of the upload requests.
UploadRequests ==
    {<<Some(f), None>> : f \in UploadedFiles}
    \cup {<<None, u>> : u \in {None, Some(<<"u">>)}}

UploadTitle == <<"b">>

Upload(status, row, file) == [status |-> status, row |-> row, file |-> file]

\* The row create_material adds (lines 121-140): the form fields, and the
\* name of the file if there is one; created_at and average_rating take
\* their defaults and file_content_text is not assigned.
create_material(title, description, material_type, course_id, file, created_at) ==
    Material(title, description,
             IF file = None THEN None ELSE Some(Val(file).filename),
             None, course_id, material_type, created_at, 0)

\* upload_material answers 201: the file, if any, has an allowed extension
\* (save_file) and there is a file or an external_url (create_material).
UploadMaterialCreated ==
    /\ response.status = "none"
    /\ Len(uploads) < MaxMaterials
    /\ \E request \in UploadRequests :
          LET file == request[1]
              external_url == request[2]
              new_material == create_material(UploadTitle, None, "summaries",
                                              1, file, Len(uploads) + 1)
          IN  /\ file # None => Lower(Suffix(Val(file).filename)) \in ALLOWED_EXTENSIONS
              /\ file # None \/ external_url # None
              /\ materials' = materials \cup {new_material}
              /\ uploads' = Append(uploads,
                                   Upload("created", Some(new_material), file))
    /\ UNCHANGED <<response, snip, fix, extract, profile, voting, rating, auth, forum, disk>>

\* upload_material answers 400: the extension of the file is not allowed
\* (save_file, lines 47-51) or there is neither a file nor an external_url
\* (create_material, lines 112-116).
UploadMaterialRejected ==
    /\ response.status = "none"
    /\ Len(uploads) < MaxMaterials
    /\ \E request \in UploadRequests :
          LET file == request[1]
              external_url == request[2]
          IN  /\ \/ /\ file # None
                    /\ Lower(Suffix(Val(file).filename)) \notin ALLOWED_EXTENSIONS
                 \/ file = None /\ external_url = None
              /\ uploads' = Append(uploads, Upload("rejected", None, file))
    /\ UNCHANGED <<materials, response, snip, fix, extract, profile, voting, rating, auth, forum, disk>>

(***************************************************************************)
(* PUT /users/me (update_current_user_profile).                            *)
(*                                                                         *)
(* profile holds the profile columns of the current user and the body of   *)
(* the last request.  A body gives each key of the JSON object an Optional *)
(* value: {} when the key is absent.                                       *)
(***************************************************************************)

\* The profile columns of the model User.
UserColumns ==
    {"full_name", "year_in_degree", "department", "department_number", "bio"}

\* The fields of the schema UserUpdate.
UserUpdateFields ==
    {"full_name", "year_of_study", "department", "bio",
     "looking_for_study_partner"}

\* The keys a request body may carry.
RequestKeys == UserColumns \cup {"year_of_study"}

\* The values a request may give for a key.
RequestValues(key) ==
    CASE key = "full_name" -> {"New Name", "Other Name"}
      [] key = "year_in_degree" -> {2, 3}
      [] key = "department" -> {"Computer Science"}
      [] key = "department_number" -> {999}
      [] key = "bio" -> {"I love computer science!"}
      [] key = "year_of_study" -> {2}

\* A key is absent or carries one of its values.
Provided(key) == {None} \cup {Some(v) : v \in RequestValues(key)}

Bodies ==
    {[full_name |-> n, year_in_degree |-> y, department |-> d,
      department_number |-> dn, bio |-> b, year_of_study |-> ys] :
        n \in Provided("full_name"), y \in Provided("year_in_degree"),
        d \in Provided("department"), dn \in Provided("department_number"),
        b \in Provided("bio"), ys \in Provided("year_of_study")}

EmptyBody == [key \in RequestKeys |-> None]

\* The user before any update.
InitialUser ==
    [column \in UserColumns |->
        IF column = "full_name" THEN Some("Test User") ELSE None]

NoProfile == [user |-> InitialUser, request |-> EmptyBody, answered |-> FALSE]

\* user_update.model_dump(exclude_unset=True): the fields of UserUpdate the
\* body sets; keys that are no field of UserUpdate are ignored.
update_data(body) ==
    [field \in {f \in UserUpdateFields \cap RequestKeys : body[f] # None} |->
        body[field]]

\* The user row after the loop of lines 65-66 and the commit: setattr on a
\* mapped column is stored, setattr of any other name is not.
UpdatedUser(user, body) ==
    [column \in UserColumns |->
        IF column \in DOMAIN update_data(body) THEN update_data(body)[column]
        ELSE user[column]]

\* update_current_user_profile, lines 63-71.
UpdateCurrentUserProfile ==
    /\ \E body \in Bodies :
          profile' = [user |-> UpdatedUser(profile.user, body),
                      request |-> body, answered |-> TRUE]
    /\ UNCHANGED <<materials, response, snip, fix, extract, uploads, voting, rating, auth, forum, disk>>


(***************************************************************************)
(* POST /comments/{comment_id}/vote (routes/comments.py, vote_comment)     *)
(*                                                                         *)
(* voting holds the comments table (upvotes and downvotes of each          *)
(* comment), the comment_votes table as the bag of its rows, and the last  *)
(* request with its status.                                                *)
(***************************************************************************)
MaxVoters == 2

VoterIds == 1..MaxVoters

\* Two comments.
CommentIds == {1, 2}

\* The ids a request may name: the comments and one id of no comment.
RequestedCommentIds == CommentIds \cup {3}

\* The vote types a request may carry: the two that line 118 lets through
\* and one that it does not.
VoteTypes == {"upvote", "downvote", "like"}

\* models/comment.py, lines 18-19: upvotes and downvotes default to 0.
NewComment == [upvotes |-> 0, downvotes |-> 0]

CommentVoteModel(user_id, comment_id, vote_type) ==
    [user_id |-> user_id, comment_id |-> comment_id, vote_type |-> vote_type]

NoVoting ==
    [comments |-> [c \in CommentIds |-> NewComment],
     comment_votes |-> EmptyBag,
     request |-> CommentVoteModel(0, 0, "none"),
     status |-> 0]

\* Lines 134-137 before .first(): the rows of the user for the comment.
existing_votes(comment_votes, user_id, comment_id) ==
    {vote \in BagToSet(comment_votes) :
        vote.user_id = user_id /\ vote.comment_id = comment_id}

\* Lines 165-168 (and 149-152): the vote type is counted.
count_added(comment, vote_type) ==
    IF vote_type = "upvote"
    THEN [comment EXCEPT !.upvotes = @ + 1]
    ELSE [comment EXCEPT !.downvotes = @ + 1]

\* A faulty variant of count_removed: the old vote stays counted.
count_removed_never(comment, vote_type) == comment

\* Lines 143-146: the old vote type is no longer counted.
count_removed(comment, vote_type) ==
    IF vote_type = "upvote"
    THEN [comment EXCEPT !.upvotes = @ - 1]
    ELSE [comment EXCEPT !.downvotes = @ - 1]

VoteAnswered(user_id, comment_id, vote_type, status) ==
    [voting EXCEPT !.request = CommentVoteModel(user_id, comment_id, vote_type),
                   !.status = status]

\* Lines 118-122: a vote type other than the two is answered 400.
VoteCommentInvalid ==
    /\ \E user_id \in VoterIds, comment_id \in RequestedCommentIds,
          vote_type \in VoteTypes :
          /\ vote_type \notin {"upvote", "downvote"}
          /\ voting' = VoteAnswered(user_id, comment_id, vote_type, 400)
    /\ UNCHANGED <<materials, response, snip, fix, extract, uploads, profile, rating, auth, forum, disk>>

\* Lines 125-130: no comment has the id, 404.
VoteCommentNotFound ==
    /\ \E user_id \in VoterIds, comment_id \in RequestedCommentIds,
          vote_type \in VoteTypes :
          /\ vote_type \in {"upvote", "downvote"}
          /\ comment_id \notin CommentIds
          /\ voting' = VoteAnswered(user_id, comment_id, vote_type, 404)
    /\ UNCHANGED <<materials, response, snip, fix, extract, uploads, profile, rating, auth, forum, disk>>

\* Lines 139-155 and 170: the user has voted the other way on the comment.
VoteCommentChanged ==
    /\ \E user_id \in VoterIds, comment_id \in RequestedCommentIds,
          vote_type \in VoteTypes :
          /\ vote_type \in {"upvote", "downvote"}
          /\ comment_id \in CommentIds
          /\ \E existing_vote \in existing_votes(voting.comment_votes, user_id, comment_id) :
                /\ existing_vote.vote_type # vote_type
                /\ voting' =
                      [VoteAnswered(user_id, comment_id, vote_type, 200)
                          EXCEPT !.comments[comment_id] =
                                     count_added(
                                         count_removed(@, existing_vote.vote_type),
                                         vote_type),
                                 !.comment_votes =
                                     (@ (-) SetToBag({existing_vote}))
                                         (+) SetToBag({[existing_vote EXCEPT
                                                          !.vote_type = vote_type]})]
    /\ UNCHANGED <<materials, response, snip, fix, extract, uploads, profile, rating, auth, forum, disk>>

\* Lines 139-141, 156 and 170: the user has voted the same way already.
VoteCommentRepeated ==
    /\ \E user_id \in VoterIds, comment_id \in RequestedCommentIds,
          vote_type \in VoteTypes :
          /\ vote_type \in {"upvote", "downvote"}
          /\ comment_id \in CommentIds
          /\ \E existing_vote \in existing_votes(voting.comment_votes, user_id, comment_id) :
                /\ existing_vote.vote_type = vote_type
                /\ voting' = VoteAnswered(user_id, comment_id, vote_type, 200)
    /\ UNCHANGED <<materials, response, snip, fix, extract, uploads, profile, rating, auth, forum, disk>>

\* Lines 157-170: the first vote of the user on the comment.
VoteCommentNew ==
    /\ \E user_id \in VoterIds, comment_id \in RequestedCommentIds,
          vote_type \in VoteTypes :
          /\ vote_type \in {"upvote", "downvote"}
          /\ comment_id \in CommentIds
          /\ existing_votes(voting.comment_votes, user_id, comment_id) = {}
          /\ voting' =
                [VoteAnswered(user_id, comment_id, vote_type, 200)
                    EXCEPT !.comments[comment_id] = count_added(@, vote_type),
                           !.comment_votes =
                               @ (+) SetToBag({CommentVoteModel(user_id, comment_id, vote_type)})]
    /\ UNCHANGED <<materials, response, snip, fix, extract, uploads, profile, rating, auth, forum, disk>>


(***************************************************************************)
(* POST, PUT and DELETE /materials/{material_id}/rate (routes/ratings.py)  *)
(*                                                                         *)
(* One material, uploaded by user 0, and the users who rate it.  rating    *)
(* holds the ratings table (per user the stars of the row, or None), the   *)
(* two rating columns of the material and, per user, the position of the   *)
(* request in progress.  A request commits its change of the ratings table *)
(* (db.commit() of lines 69, 168 and 203), then _update_material_rating    *)
(* reads the aggregate (lines 217-222) and, in a later statement, writes   *)
(* it to the material and commits (lines 225-229); nothing in the code     *)
(* keeps another request from committing in between.                       *)
(***************************************************************************)
MaxRaters == 2

\* material.uploader_id
Uploader == 0

RaterIds == 1..MaxRaters

\* schemas/rating.py, line 10: 1 to 5 stars; the lowest and the highest.
RatingValues == {1, 5}

RECURSIVE Gcd(_, _)
Gcd(a, b) == IF b = 0 THEN a ELSE Gcd(b, a % b)

\* A float that is the quotient of two integers, in lowest terms.
Quotient(num, den) ==
    [num |-> num \div Gcd(num, den), den |-> den \div Gcd(num, den)]

RECURSIVE SumOf(_, _)
SumOf(table, users) ==
    IF users = {} THEN 0
    ELSE LET u == CHOOSE x \in users : TRUE
         IN  Val(table[u]) + SumOf(table, users \ {u})

\* Lines 217-222: func.avg(Rating.rating) and func.count(Rating.id) over the
\* rows of the material; avg is NULL when there is no row.
rating_aggregate(table) ==
    LET rows == {u \in DOMAIN table : table[u] # None}
    IN  [avg_rating |-> IF rows = {} THEN None
                        ELSE Some(Quotient(SumOf(table, rows), Cardinality(rows))),
         rating_count |-> Cardinality(rows)]

\* Lines 227-228: float(result.avg_rating or 0) and result.rating_count or 0.
updated_material(result) ==
    [average_rating |-> IF result.avg_rating = None THEN Quotient(0, 1)
                        ELSE Val(result.avg_rating),
     rating_count |-> result.rating_count]

\* models/material.py, lines 49-50.
NewMaterialRating == [average_rating |-> Quotient(0, 1), rating_count |-> 0]

NoResult == [avg_rating |-> None, rating_count |-> 0]

\* No request of the user is in progress.
IdleRequest == [pc |-> "idle", status |-> 0, result |-> NoResult]

\* The request has committed its change of the ratings table and is about
\* to call _update_material_rating; it will answer status.
CommittedRequest(status) == [pc |-> "committed", status |-> status, result |-> NoResult]

NoRating ==
    [ratings |-> [u \in RaterIds |-> None],
     material |-> NewMaterialRating,
     requests |-> [u \in RaterIds |-> IdleRequest],
     user_id |-> Uploader,
     status |-> 0]

RatingAnswered(user_id, status) ==
    [rating EXCEPT !.user_id = user_id, !.status = status]

\* rate_material, lines 41-45: the uploader rates the material, 400.
RateMaterialOwn ==
    /\ rating' = RatingAnswered(Uploader, 400)
    /\ UNCHANGED <<materials, response, snip, fix, extract, uploads, profile, voting, auth, forum, disk>>

\* rate_material, lines 48-57: the user has a rating of the material, 400.
RateMaterialAgain ==
    /\ \E user_id \in RaterIds :
          /\ rating.requests[user_id].pc = "idle"
          /\ rating.ratings[user_id] # None
          /\ rating' = RatingAnswered(user_id, 400)
    /\ UNCHANGED <<materials, response, snip, fix, extract, uploads, profile, voting, auth, forum, disk>>

\* rate_material, lines 60-69: the rating is added and committed.
RateMaterial ==
    /\ \E user_id \in RaterIds, stars \in RatingValues :
          /\ rating.requests[user_id].pc = "idle"
          /\ rating.ratings[user_id] = None
          /\ rating' = [rating EXCEPT !.ratings[user_id] = Some(stars),
                                      !.requests[user_id] = CommittedRequest(201)]
    /\ UNCHANGED <<materials, response, snip, fix, extract, uploads, profile, voting, auth, forum, disk>>

\* update_rating, lines 154-163: the user has no rating of the material, 404.
UpdateRatingNotFound ==
    /\ \E user_id \in RaterIds :
          /\ rating.requests[user_id].pc = "idle"
          /\ rating.ratings[user_id] = None
          /\ rating' = RatingAnswered(user_id, 404)
    /\ UNCHANGED <<materials, response, snip, fix, extract, uploads, profile, voting, auth, forum, disk>>

\* update_rating, lines 166-172: the rating takes the stars of the request,
\* when it has any, and the change is committed.
UpdateRating ==
    /\ \E user_id \in RaterIds, stars \in {None} \cup {Some(v) : v \in RatingValues} :
          /\ rating.requests[user_id].pc = "idle"
          /\ rating.ratings[user_id] # None
          /\ rating' = [rating EXCEPT !.ratings[user_id] =
                                          IF stars # None THEN stars ELSE @,
                                      !.requests[user_id] = CommittedRequest(200)]
    /\ UNCHANGED <<materials, response, snip, fix, extract, uploads, profile, voting, auth, forum, disk>>

\* delete_rating, lines 189-198: the user has no rating of the material, 404.
DeleteRatingNotFound ==
    /\ \E user_id \in RaterIds :
          /\ rating.requests[user_id].pc = "idle"
          /\ rating.ratings[user_id] = None
          /\ rating' = RatingAnswered(user_id, 404)
    /\ UNCHANGED <<materials, response, snip, fix, extract, uploads, profile, voting, auth, forum, disk>>

\* delete_rating, lines 200-201: the rating is deleted and the change
\* committed.
DeleteRating ==
    /\ \E user_id \in RaterIds :
          /\ rating.requests[user_id].pc = "idle"
          /\ rating.ratings[user_id] # None
          /\ rating' = [rating EXCEPT !.ratings[user_id] = None,
                                      !.requests[user_id] = CommittedRequest(204)]
    /\ UNCHANGED <<materials, response, snip, fix, extract, uploads, profile, voting, auth, forum, disk>>

\* _update_material_rating, lines 217-222: the aggregate over the ratings
\* committed so far is read.
UpdateMaterialRatingRead ==
    /\ \E user_id \in RaterIds :
          /\ rating.requests[user_id].pc = "committed"
          /\ rating' = [rating EXCEPT !.requests[user_id].pc = "read",
                                      !.requests[user_id].result =
                                          rating_aggregate(rating.ratings)]
    /\ UNCHANGED <<materials, response, snip, fix, extract, uploads, profile, voting, auth, forum, disk>>

\* _update_material_rating, lines 225-229, and the return of the handler:
\* the aggregate that was read is written to the material and committed.
UpdateMaterialRatingWrite ==
    /\ \E user_id \in RaterIds :
          /\ rating.requests[user_id].pc = "read"
          /\ rating' = [RatingAnswered(user_id, rating.requests[user_id].status)
                           EXCEPT !.material =
                                      updated_material(rating.requests[user_id].result),
                                  !.requests[user_id] = IdleRequest]
    /\ UNCHANGED <<materials, response, snip, fix, extract, uploads, profile, voting, auth, forum, disk>>


(***************************************************************************)
(* AuthService (services/auth_service.py) behind the routes of             *)
(* routes/auth.py                                                          *)
(*                                                                         *)
(* auth holds the users table (per username the row, or None), the number  *)
(* of tokens that secrets.token_urlsafe has returned so far (a token is    *)
(* written as its number: no two calls return the same one), the last      *)
(* request with its status, and two records of the past: the tokens with   *)
(* which verify_email or reset_password has succeeded, and the usernames   *)
(* for which verify_email has succeeded.                                   *)
(***************************************************************************)
MaxTokens == 2

Usernames == {"u", "v"}

Emails == {"u@post.bgu.ac.il", "v@post.bgu.ac.il"}

Passwords == {"p", "q"}

\* The tokens of a request: those issued so far or later, and 0, a string
\* that is never issued.
Tokens32 == 0..MaxTokens

\* An expiry time, as it compares with datetime.now(timezone.utc).
Expiries == {"later", "earlier"}

\* A faulty variant of NewUser: is_active is left to its default
\* (models/user.py, line 28).
NewUserActive(email, password, verification_token) ==
    [email |-> email,
     hashed_password |-> password,
     is_active |-> TRUE,
     is_email_verified |-> FALSE,
     email_verification_token |-> Some(verification_token),
     email_verification_token_expires |-> Some("later"),
     password_reset_token |-> None,
     password_reset_token_expires |-> None]

\* register_user, lines 62-72.
NewUser(email, password, verification_token) ==
    [email |-> email,
     hashed_password |-> password,
     is_active |-> FALSE,
     is_email_verified |-> FALSE,
     email_verification_token |-> Some(verification_token),
     email_verification_token_expires |-> Some("later"),
     password_reset_token |-> None,
     password_reset_token_expires |-> None]

NoAuthRequest == [op |-> "none", username |-> "", token |-> 0, status |-> 0]

NoAuth ==
    [users |-> [username \in Usernames |-> None],
     tokens_created |-> 0,
     request |-> NoAuthRequest,
     used_tokens |-> {},
     verified |-> {}]

AuthAnswered(op, username, token, status) ==
    [op |-> op, username |-> username, token |-> token, status |-> status]

\* db.query(User).filter(User.email == email).first(): the usernames of
\* the rows with the email.
users_by_email(users, email) ==
    {username \in Usernames :
        users[username] # None /\ Val(users[username]).email = email}

\* db.query(User).filter(User.email_verification_token == token).first()
users_by_verification_token(users, token) ==
    {username \in Usernames :
        /\ users[username] # None
        /\ Val(users[username]).email_verification_token = Some(token)}

\* db.query(User).filter(User.password_reset_token == token).first()
users_by_reset_token(users, token) ==
    {username \in Usernames :
        /\ users[username] # None
        /\ Val(users[username]).password_reset_token = Some(token)}

\* register_user, lines 41-54: the username or the email is taken, 400.
RegisterUserTaken ==
    /\ \E username \in Usernames, email \in Emails :
          /\ auth.users[username] # None \/ users_by_email(auth.users, email) # {}
          /\ auth' = [auth EXCEPT !.request = AuthAnswered("register", username, 0, 400)]
    /\ UNCHANGED <<materials, response, snip, fix, extract, uploads, profile, voting, rating, forum, disk>>

\* register_user, lines 57-89: the user is created, inactive and not
\* verified, with a new verification token.
RegisterUser ==
    /\ \E username \in Usernames, email \in Emails, password \in Passwords :
          /\ auth.users[username] = None
          /\ users_by_email(auth.users, email) = {}
          /\ auth.tokens_created < MaxTokens
          /\ auth' = [auth EXCEPT
                        !.users[username] =
                            Some(NewUser(email, password, auth.tokens_created + 1)),
                        !.tokens_created = @ + 1,
                        !.request = AuthAnswered("register", username, 0, 201)]
    /\ UNCHANGED <<materials, response, snip, fix, extract, uploads, profile, voting, rating, forum, disk>>

\* authenticate_user, lines 107-137: the status of a login.
authenticate_user(users, username, password) ==
    IF users[username] = None THEN 401
    ELSE IF Val(users[username]).hashed_password # password THEN 401
    ELSE IF ~Val(users[username]).is_active THEN 403
    ELSE 200

\* POST /auth/login.
Login ==
    /\ \E username \in Usernames, password \in Passwords :
          auth' = [auth EXCEPT !.request =
                      AuthAnswered("login", username, 0,
                                   authenticate_user(auth.users, username, password))]
    /\ UNCHANGED <<materials, response, snip, fix, extract, uploads, profile, voting, rating, forum, disk>>

\* verify_email, lines 188-208: the token is of no user, or of a verified
\* user, or has expired.
verify_email_refused(users, token) ==
    \/ users_by_verification_token(users, token) = {}
    \/ \E username \in users_by_verification_token(users, token) :
          \/ Val(users[username]).is_email_verified
          \/ Val(users[username]).email_verification_token_expires = Some("earlier")

\* GET /auth/verify-email, refused with 400.
VerifyEmailRefused ==
    /\ \E token \in Tokens32 :
          /\ verify_email_refused(auth.users, token)
          /\ auth' = [auth EXCEPT !.request = AuthAnswered("verify_email", "", token, 400)]
    /\ UNCHANGED <<materials, response, snip, fix, extract, uploads, profile, voting, rating, forum, disk>>

\* verify_email, lines 211-223: the user is verified and active, the token
\* cleared.
VerifyEmail ==
    /\ \E token \in Tokens32 :
          /\ ~verify_email_refused(auth.users, token)
          /\ \E username \in users_by_verification_token(auth.users, token) :
                auth' = [auth EXCEPT
                           !.users[username] =
                               Some([Val(@) EXCEPT
                                        !.is_email_verified = TRUE,
                                        !.is_active = TRUE,
                                        !.email_verification_token = None,
                                        !.email_verification_token_expires = None]),
                           !.request = AuthAnswered("verify_email", username, token, 200),
                           !.used_tokens = @ \cup {token},
                           !.verified = @ \cup {username}]
    /\ UNCHANGED <<materials, response, snip, fix, extract, uploads, profile, voting, rating, forum, disk>>

\* resend_verification_email, lines 240-252: no user has the email (404) or
\* the user is verified (400).
ResendVerificationRefused ==
    /\ \E email \in Emails :
          LET found == users_by_email(auth.users, email)
          IN  /\ \A username \in found : Val(auth.users[username]).is_email_verified
              /\ auth' = [auth EXCEPT !.request =
                            AuthAnswered("resend_verification", "", 0,
                                         IF found = {} THEN 404 ELSE 400)]
    /\ UNCHANGED <<materials, response, snip, fix, extract, uploads, profile, voting, rating, forum, disk>>

\* resend_verification_email, lines 255-276: the user gets a new token;
\* the request is answered 500 when the email was not sent.
ResendVerification ==
    /\ \E email \in Emails, email_sent \in BOOLEAN :
          \E username \in users_by_email(auth.users, email) :
              /\ ~Val(auth.users[username]).is_email_verified
              /\ auth.tokens_created < MaxTokens
              /\ auth' = [auth EXCEPT
                            !.users[username] =
                                Some([Val(@) EXCEPT
                                         !.email_verification_token =
                                             Some(auth.tokens_created + 1),
                                         !.email_verification_token_expires =
                                             Some("later")]),
                            !.tokens_created = @ + 1,
                            !.request = AuthAnswered("resend_verification", username, 0,
                                                     IF email_sent THEN 200 ELSE 500)]
    /\ UNCHANGED <<materials, response, snip, fix, extract, uploads, profile, voting, rating, forum, disk>>

\* request_password_reset, lines 293-299: no user has the email, 404.
RequestPasswordResetNotFound ==
    /\ \E email \in Emails :
          /\ users_by_email(auth.users, email) = {}
          /\ auth' = [auth EXCEPT !.request = AuthAnswered("forgot_password", "", 0, 404)]
    /\ UNCHANGED <<materials, response, snip, fix, extract, uploads, profile, voting, rating, forum, disk>>

\* request_password_reset, lines 302-323: the user gets a new reset token;
\* the request is answered 500 when the email was not sent.
RequestPasswordReset ==
    /\ \E email \in Emails, email_sent \in BOOLEAN :
          \E username \in users_by_email(auth.users, email) :
              /\ auth.tokens_created < MaxTokens
              /\ auth' = [auth EXCEPT
                            !.users[username] =
                                Some([Val(@) EXCEPT
                                         !.password_reset_token =
                                             Some(auth.tokens_created + 1),
                                         !.password_reset_token_expires =
                                             Some("later")]),
                            !.tokens_created = @ + 1,
                            !.request = AuthAnswered("forgot_password", username, 0,
                                                     IF email_sent THEN 200 ELSE 500)]
    /\ UNCHANGED <<materials, response, snip, fix, extract, uploads, profile, voting, rating, forum, disk>>

\* reset_password, lines 342-355: the token is of no user or has expired.
reset_password_refused(users, token) ==
    \/ users_by_reset_token(users, token) = {}
    \/ \E username \in users_by_reset_token(users, token) :
          Val(users[username]).password_reset_token_expires = Some("earlier")

\* A faulty variant of password_reset: the reset token is kept.
password_reset_token_kept(user, new_password) ==
    [user EXCEPT !.hashed_password = new_password]

\* reset_password, lines 357-359: the row with the new password and without
\* the reset token.
password_reset(user, new_password) ==
    [user EXCEPT !.hashed_password = new_password,
                 !.password_reset_token = None,
                 !.password_reset_token_expires = None]

\* POST /auth/reset-password, refused with 400.
ResetPasswordRefused ==
    /\ \E token \in Tokens32 :
          /\ reset_password_refused(auth.users, token)
          /\ auth' = [auth EXCEPT !.request = AuthAnswered("reset_password", "", token, 400)]
    /\ UNCHANGED <<materials, response, snip, fix, extract, uploads, profile, voting, rating, forum, disk>>

\* reset_password, lines 357-365: the password is replaced and the token
\* cleared.
ResetPassword ==
    /\ \E token \in Tokens32, new_password \in Passwords :
          /\ ~reset_password_refused(auth.users, token)
          /\ \E username \in users_by_reset_token(auth.users, token) :
                auth' = [auth EXCEPT
                           !.users[username] =
                               Some(password_reset(Val(@), new_password)),
                           !.request = AuthAnswered("reset_password", username, token, 200),
                           !.used_tokens = @ \cup {token}]
    /\ UNCHANGED <<materials, response, snip, fix, extract, uploads, profile, voting, rating, forum, disk>>

\* Time passes the expiry of the verification token of a user
\* (security.py, line 102: 24 hours after it was created).
VerificationTokenExpires ==
    /\ \E username \in Usernames :
          /\ auth.users[username] # None
          /\ Val(auth.users[username]).email_verification_token_expires = Some("later")
          /\ auth' = [auth EXCEPT !.users[username] =
                        Some([Val(@) EXCEPT
                                 !.email_verification_token_expires = Some("earlier")])]
    /\ UNCHANGED <<materials, response, snip, fix, extract, uploads, profile, voting, rating, forum, disk>>

\* Time passes the expiry of the reset token of a user (security.py,
\* line 122: 1 hour after it was created).
ResetTokenExpires ==
    /\ \E username \in Usernames :
          /\ auth.users[username] # None
          /\ Val(auth.users[username]).password_reset_token_expires = Some("later")
          /\ auth' = [auth EXCEPT !.users[username] =
                        Some([Val(@) EXCEPT
                                 !.password_reset_token_expires = Some("earlier")])]
    /\ UNCHANGED <<materials, response, snip, fix, extract, uploads, profile, voting, rating, forum, disk>>


(***************************************************************************)
(* Materials and their discussions: MaterialService.create_material and    *)
(* delete_material, update_discussion and delete_discussion of             *)
(* routes/discussions.py, get_material_discussion of routes/materials.py   *)
(*                                                                         *)
(* forum holds the rows of the materials table (id and uploader), the rows *)
(* of the discussions table that belong to a material, the number of       *)
(* materials created so far and the last request with its status.  No user *)
(* is an admin.                                                            *)
(***************************************************************************)
MaxCreated == 2

ForumUsers == {1, 2}

\* The ids a request may name: those of the rows created so far or later.
ForumIds == 1..MaxCreated

ForumMaterial(id, uploader_id) == [id |-> id, uploader_id |-> uploader_id]

\* material_service.py, lines 141-146; edited is set by update_discussion.
Discussion(id, material_id, author_id, edited) ==
    [id |-> id, material_id |-> material_id, author_id |-> author_id,
     edited |-> edited]

ForumAnswered(op, id, user_id, status) ==
    [op |-> op, id |-> id, user_id |-> user_id, status |-> status]

NoForum ==
    [materials |-> {},
     discussions |-> {},
     created |-> 0,
     request |-> ForumAnswered("none", 0, 0, 0)]

\* db.query(Discussion).filter(Discussion.material_id == material_id)
discussions_of(discussions, material_id) ==
    {d \in discussions : d.material_id = material_id}

\* delete_discussion, lines 247-248.
discussions_after_delete(discussions, discussion) == discussions \ {discussion}

\* create_material, lines 118-153: the material and its discussion.
CreateMaterial ==
    /\ \E uploader_id \in ForumUsers :
          /\ forum.created < MaxCreated
          /\ forum' = [forum EXCEPT
                         !.materials = @ \cup {ForumMaterial(forum.created + 1, uploader_id)},
                         !.discussions =
                             @ \cup {Discussion(forum.created + 1, forum.created + 1,
                                                uploader_id, FALSE)},
                         !.created = @ + 1,
                         !.request = ForumAnswered("create_material", forum.created + 1,
                                                   uploader_id, 201)]
    /\ UNCHANGED <<materials, response, snip, fix, extract, uploads, profile, voting, rating, auth, disk>>

\* update_discussion, lines 194-199: no discussion has the id, 404.
UpdateDiscussionNotFound ==
    /\ \E id \in ForumIds, user_id \in ForumUsers :
          /\ \A d \in forum.discussions : d.id # id
          /\ forum' = [forum EXCEPT !.request =
                         ForumAnswered("update_discussion", id, user_id, 404)]
    /\ UNCHANGED <<materials, response, snip, fix, extract, uploads, profile, voting, rating, auth, disk>>

\* update_discussion, lines 202-206: the user is not the author, 403.
UpdateDiscussionForbidden ==
    /\ \E id \in ForumIds, user_id \in ForumUsers :
          /\ \E d \in forum.discussions : d.id = id /\ d.author_id # user_id
          /\ forum' = [forum EXCEPT !.request =
                         ForumAnswered("update_discussion", id, user_id, 403)]
    /\ UNCHANGED <<materials, response, snip, fix, extract, uploads, profile, voting, rating, auth, disk>>

\* update_discussion, lines 209-217.
UpdateDiscussion ==
    /\ \E id \in ForumIds, user_id \in ForumUsers :
          \E d \in forum.discussions :
              /\ d.id = id
              /\ d.author_id = user_id
              /\ forum' = [forum EXCEPT
                             !.discussions = (@ \ {d}) \cup {[d EXCEPT !.edited = TRUE]},
                             !.request = ForumAnswered("update_discussion", id, user_id, 200)]
    /\ UNCHANGED <<materials, response, snip, fix, extract, uploads, profile, voting, rating, auth, disk>>

\* delete_discussion, lines 233-238: no discussion has the id, 404.
DeleteDiscussionNotFound ==
    /\ \E id \in ForumIds, user_id \in ForumUsers :
          /\ \A d \in forum.discussions : d.id # id
          /\ forum' = [forum EXCEPT !.request =
                         ForumAnswered("delete_discussion", id, user_id, 404)]
    /\ UNCHANGED <<materials, response, snip, fix, extract, uploads, profile, voting, rating, auth, disk>>

\* delete_discussion, lines 241-245: the user is not the author, 403.
DeleteDiscussionForbidden ==
    /\ \E id \in ForumIds, user_id \in ForumUsers :
          /\ \E d \in forum.discussions : d.id = id /\ d.author_id # user_id
          /\ forum' = [forum EXCEPT !.request =
                         ForumAnswered("delete_discussion", id, user_id, 403)]
    /\ UNCHANGED <<materials, response, snip, fix, extract, uploads, profile, voting, rating, auth, disk>>

\* delete_discussion, lines 247-250: the discussion is deleted, also the
\* one of a material.
DeleteDiscussion ==
    /\ \E id \in ForumIds, user_id \in ForumUsers :
          \E d \in forum.discussions :
              /\ d.id = id
              /\ d.author_id = user_id
              /\ forum' = [forum EXCEPT
                             !.discussions = discussions_after_delete(@, d),
                             !.request = ForumAnswered("delete_discussion", id, user_id, 204)]
    /\ UNCHANGED <<materials, response, snip, fix, extract, uploads, profile, voting, rating, auth, disk>>

\* delete_material, line 280 (get_material_by_id, lines 211-216): 404.
DeleteMaterialNotFound ==
    /\ \E id \in ForumIds, user_id \in ForumUsers :
          /\ \A m \in forum.materials : m.id # id
          /\ forum' = [forum EXCEPT !.request =
                         ForumAnswered("delete_material", id, user_id, 404)]
    /\ UNCHANGED <<materials, response, snip, fix, extract, uploads, profile, voting, rating, auth, disk>>

\* delete_material, lines 283-287: the user is not the uploader, 403.
DeleteMaterialForbidden ==
    /\ \E id \in ForumIds, user_id \in ForumUsers :
          /\ \E m \in forum.materials : m.id = id /\ m.uploader_id # user_id
          /\ forum' = [forum EXCEPT !.request =
                         ForumAnswered("delete_material", id, user_id, 403)]
    /\ UNCHANGED <<materials, response, snip, fix, extract, uploads, profile, voting, rating, auth, disk>>

\* delete_material, lines 290-298: the material is deleted, and with it its
\* discussion (models/material.py, line 65, cascade="all, delete-orphan").
DeleteMaterial ==
    /\ \E id \in ForumIds, user_id \in ForumUsers :
          \E m \in forum.materials :
              /\ m.id = id
              /\ m.uploader_id = user_id
              /\ forum' = [forum EXCEPT
                             !.materials = @ \ {m},
                             !.discussions = @ \ discussions_of(@, id),
                             !.request = ForumAnswered("delete_material", id, user_id, 204)]
    /\ UNCHANGED <<materials, response, snip, fix, extract, uploads, profile, voting, rating, auth, disk>>

\* get_material_discussion, lines 239-252: 404 when there is no material
\* with the id or no discussion of the material, 200 otherwise.
GetMaterialDiscussion ==
    /\ \E material_id \in ForumIds :
          forum' = [forum EXCEPT !.request =
                      ForumAnswered("get_material_discussion", material_id, 0,
                          IF \A m \in forum.materials : m.id # material_id THEN 404
                          ELSE IF discussions_of(forum.discussions, material_id) = {}
                               THEN 404
                               ELSE 200)]
    /\ UNCHANGED <<materials, response, snip, fix, extract, uploads, profile, voting, rating, auth, disk>>


(***************************************************************************)
(* MaterialService.save_file (services/material_service.py, lines 31-87)   *)
(*                                                                         *)
(* disk holds the names of the files in the upload directory, the number   *)
(* of names uuid.uuid4() has given so far (a name is written as its        *)
(* number: no two calls give the same one) and the last call with its      *)
(* status: 200 when save_file returned, the status of the HTTPException    *)
(* otherwise.                                                              *)
(***************************************************************************)
MaxSaved == 4

\* Line 24.
MAX_FILE_SIZE == 50 * 1024 * 1024

\* The names of the files of the calls: one of an allowed type, one with an
\* upper-case extension, one of a type that is not allowed.
SavedFilenames ==
    {<<"b", ".", "p", "d", "f">>, <<"b", ".", "P", "D", "F">>,
     <<"b", ".", "e", "x", "e">>}

\* len(content) of the files of the calls: empty, at the limit and one
\* byte above it.
SavedSizes == {0, MAX_FILE_SIZE, MAX_FILE_SIZE + 1}

NoCallOfSaveFile == [filename |-> <<>>, file_size |-> 0, unique_filename |-> 0, status |-> 0]

SaveFileCall(filename, file_size, unique_filename, status) ==
    [filename |-> filename, file_size |-> file_size,
     unique_filename |-> unique_filename, status |-> status]

NoDisk == [files |-> {}, names |-> 0, call |-> NoCallOfSaveFile]

\* Lines 82-83: the file is removed if it exists.
cleaned_up(files, file_path) == files \ {file_path}

\* Lines 46-51: the extension is not allowed, 400; no file is opened.
SaveFileNotAllowed ==
    /\ \E filename \in SavedFilenames, file_size \in SavedSizes :
          /\ Lower(Suffix(filename)) \notin ALLOWED_EXTENSIONS
          /\ disk' = [disk EXCEPT !.call = SaveFileCall(filename, file_size, 0, 400)]
    /\ UNCHANGED <<materials, response, snip, fix, extract, uploads, profile, voting, rating, auth, forum>>

\* Lines 54-72 and 80-87: the file is opened for writing (and so created),
\* the content is longer than MAX_FILE_SIZE, the HTTPException of line 69
\* is raised inside the try block and caught by "except Exception" of line
\* 80, which removes the file and raises the HTTPException of line 84.
SaveFileTooLarge ==
    /\ \E filename \in SavedFilenames, file_size \in SavedSizes :
          /\ Lower(Suffix(filename)) \in ALLOWED_EXTENSIONS
          /\ disk.names < MaxSaved
          /\ file_size > MAX_FILE_SIZE
          /\ disk' = [disk EXCEPT
                        !.files = cleaned_up(@ \cup {disk.names + 1}, disk.names + 1),
                        !.names = @ + 1,
                        !.call = SaveFileCall(filename, file_size, disk.names + 1, 500)]
    /\ UNCHANGED <<materials, response, snip, fix, extract, uploads, profile, voting, rating, auth, forum>>

\* Lines 54-65, 74 and 80-87: open, read or write raises; the file is
\* removed if it was created and the HTTPException of line 84 is raised.
SaveFileFailed ==
    /\ \E filename \in SavedFilenames, file_size \in SavedSizes, opened \in BOOLEAN :
          /\ Lower(Suffix(filename)) \in ALLOWED_EXTENSIONS
          /\ disk.names < MaxSaved
          /\ file_size <= MAX_FILE_SIZE
          /\ disk' = [disk EXCEPT
                        !.files = cleaned_up(IF opened THEN @ \cup {disk.names + 1} ELSE @,
                                             disk.names + 1),
                        !.names = @ + 1,
                        !.call = SaveFileCall(filename, file_size, disk.names + 1, 500)]
    /\ UNCHANGED <<materials, response, snip, fix, extract, uploads, profile, voting, rating, auth, forum>>

\* Lines 54-78: the content is written and save_file returns.
SaveFile ==
    /\ \E filename \in SavedFilenames, file_size \in SavedSizes :
          /\ Lower(Suffix(filename)) \in ALLOWED_EXTENSIONS
          /\ disk.names < MaxSaved
          /\ file_size <= MAX_FILE_SIZE
          /\ disk' = [disk EXCEPT
                        !.files = @ \cup {disk.names + 1},
                        !.names = @ + 1,
                        !.call = SaveFileCall(filename, file_size, disk.names + 1, 200)]
    /\ UNCHANGED <<materials, response, snip, fix, extract, uploads, profile, voting, rating, auth, forum>>

(***************************************************************************)
(* Specifications.                                                         *)
(***************************************************************************)

\* Searches over a store of materials.
Init ==
    /\ materials \in Stores
    /\ response = NoResponse
    /\ snip = NoCall
    /\ fix = NoFix
    /\ extract = NoExtract
    /\ uploads = <<>>
    /\ profile = NoProfile
    /\ voting = NoVoting
    /\ rating = NoRating
    /\ auth = NoAuth
    /\ forum = NoForum
    /\ disk = NoDisk

Next ==
    \/ SearchMaterialsEmpty
    \/ SearchMaterialsQuery
    \/ SearchReturned

Spec == Init /\ [][Next]_vars

\* Calls of generate_snippet.
InitSnippet ==
    /\ materials = {}
    /\ response = NoResponse
    /\ snip \in {SnippetCall(t, s, c) :
                    t \in SnTexts, s \in SnTerms, c \in SnContexts}
                \cup ExampleCalls
    /\ fix = NoFix
    /\ extract = NoExtract
    /\ uploads = <<>>
    /\ profile = NoProfile
    /\ voting = NoVoting
    /\ rating = NoRating
    /\ auth = NoAuth
    /\ forum = NoForum
    /\ disk = NoDisk

NextSnippet ==
    \/ GenerateSnippetEmpty
    \/ GenerateSnippetNoMatch
    \/ GenerateSnippetMatch

SpecSnippet == InitSnippet /\ [][NextSnippet]_vars

\* Calls of fix_hebrew_direction.
InitFix ==
    /\ materials = {}
    /\ response = NoResponse
    /\ snip = NoCall
    /\ fix \in {FixCall(t) : t \in FixTexts}
    /\ extract = NoExtract
    /\ uploads = <<>>
    /\ profile = NoProfile
    /\ voting = NoVoting
    /\ rating = NoRating
    /\ auth = NoAuth
    /\ forum = NoForum
    /\ disk = NoDisk

NextFix ==
    \/ FixHebrewDirectionEmpty
    \/ FixHebrewDirectionPlain
    \/ FixHebrewDirectionHebrew

SpecFix == InitFix /\ [][NextFix]_vars

\* Calls of extract_file_text.
InitExtract ==
    /\ materials = {}
    /\ response = NoResponse
    /\ snip = NoCall
    /\ fix = NoFix
    /\ extract \in {ExtractCall(f, e) : f \in Files, e \in Extensions}
    /\ uploads = <<>>
    /\ profile = NoProfile
    /\ voting = NoVoting
    /\ rating = NoRating
    /\ auth = NoAuth
    /\ forum = NoForum
    /\ disk = NoDisk

NextExtract ==
    \/ ExtractFileTextUnsupported
    \/ ExtractPdfTextMissing
    \/ ExtractPdfTextFailed
    \/ ExtractPdfTextBlank
    \/ ExtractPdfTextReturned

SpecExtract == InitExtract /\ [][NextExtract]_vars

\* Uploads into an empty store, and searches over it.
InitUpload ==
    /\ materials = {}
    /\ response = NoResponse
    /\ snip = NoCall
    /\ fix = NoFix
    /\ extract = NoExtract
    /\ uploads = <<>>
    /\ profile = NoProfile
    /\ voting = NoVoting
    /\ rating = NoRating
    /\ auth = NoAuth
    /\ forum = NoForum
    /\ disk = NoDisk

NextUpload ==
    \/ UploadMaterialCreated
    \/ UploadMaterialRejected
    \/ SearchMaterialsEmpty
    \/ SearchMaterialsQuery
    \/ SearchReturned

SpecUpload == InitUpload /\ [][NextUpload]_vars

\* Requests PUT /users/me of one user.
InitProfile ==
    /\ materials = {}
    /\ response = NoResponse
    /\ snip = NoCall
    /\ fix = NoFix
    /\ extract = NoExtract
    /\ uploads = <<>>
    /\ profile = NoProfile
    /\ voting = NoVoting
    /\ rating = NoRating
    /\ auth = NoAuth
    /\ forum = NoForum
    /\ disk = NoDisk

NextProfile == UpdateCurrentUserProfile

SpecProfile == InitProfile /\ [][NextProfile]_vars

\* Searches over stores of rows with long descriptions and titles.
InitFallback ==
    /\ materials \in FallbackStores
    /\ response = NoResponse
    /\ snip = NoCall
    /\ fix = NoFix
    /\ extract = NoExtract
    /\ uploads = <<>>
    /\ profile = NoProfile
    /\ voting = NoVoting
    /\ rating = NoRating
    /\ auth = NoAuth
    /\ forum = NoForum
    /\ disk = NoDisk

SpecFallback == InitFallback /\ [][Next]_vars


\* Requests POST /comments/{comment_id}/vote, one after the other.
InitVoting ==
    /\ materials = {}
    /\ response = NoResponse
    /\ snip = NoCall
    /\ fix = NoFix
    /\ extract = NoExtract
    /\ uploads = <<>>
    /\ profile = NoProfile
    /\ voting = NoVoting
    /\ rating = NoRating
    /\ auth = NoAuth
    /\ forum = NoForum
    /\ disk = NoDisk

NextVoting ==
    \/ VoteCommentInvalid
    \/ VoteCommentNotFound
    \/ VoteCommentChanged
    \/ VoteCommentRepeated
    \/ VoteCommentNew

SpecVoting == InitVoting /\ [][NextVoting]_vars


\* Requests to rate one material, update and delete the rating, of several
\* users at a time.
InitRating ==
    /\ materials = {}
    /\ response = NoResponse
    /\ snip = NoCall
    /\ fix = NoFix
    /\ extract = NoExtract
    /\ uploads = <<>>
    /\ profile = NoProfile
    /\ voting = NoVoting
    /\ rating = NoRating
    /\ auth = NoAuth
    /\ forum = NoForum
    /\ disk = NoDisk

NextRating ==
    \/ RateMaterialOwn
    \/ RateMaterialAgain
    \/ RateMaterial
    \/ UpdateRatingNotFound
    \/ UpdateRating
    \/ DeleteRatingNotFound
    \/ DeleteRating
    \/ UpdateMaterialRatingRead
    \/ UpdateMaterialRatingWrite

SpecRating == InitRating /\ [][NextRating]_vars


\* Requests to the routes of routes/auth.py, one after the other.
InitAuth ==
    /\ materials = {}
    /\ response = NoResponse
    /\ snip = NoCall
    /\ fix = NoFix
    /\ extract = NoExtract
    /\ uploads = <<>>
    /\ profile = NoProfile
    /\ voting = NoVoting
    /\ rating = NoRating
    /\ auth = NoAuth
    /\ forum = NoForum
    /\ disk = NoDisk

NextAuth ==
    \/ RegisterUserTaken
    \/ RegisterUser
    \/ Login
    \/ VerifyEmailRefused
    \/ VerifyEmail
    \/ ResendVerificationRefused
    \/ ResendVerification
    \/ RequestPasswordResetNotFound
    \/ RequestPasswordReset
    \/ ResetPasswordRefused
    \/ ResetPassword
    \/ VerificationTokenExpires
    \/ ResetTokenExpires

SpecAuth == InitAuth /\ [][NextAuth]_vars


\* Creations and deletions of materials, updates and deletions of
\* discussions.
InitForum ==
    /\ materials = {}
    /\ response = NoResponse
    /\ snip = NoCall
    /\ fix = NoFix
    /\ extract = NoExtract
    /\ uploads = <<>>
    /\ profile = NoProfile
    /\ voting = NoVoting
    /\ rating = NoRating
    /\ auth = NoAuth
    /\ forum = NoForum
    /\ disk = NoDisk

NextForum ==
    \/ CreateMaterial
    \/ UpdateDiscussionNotFound
    \/ UpdateDiscussionForbidden
    \/ UpdateDiscussion
    \/ DeleteDiscussionNotFound
    \/ DeleteDiscussionForbidden
    \/ DeleteDiscussion
    \/ DeleteMaterialNotFound
    \/ DeleteMaterialForbidden
    \/ DeleteMaterial
    \/ GetMaterialDiscussion

SpecForum == InitForum /\ [][NextForum]_vars


\* Calls of save_file, one after the other.
InitDisk ==
    /\ materials = {}
    /\ response = NoResponse
    /\ snip = NoCall
    /\ fix = NoFix
    /\ extract = NoExtract
    /\ uploads = <<>>
    /\ profile = NoProfile
    /\ voting = NoVoting
    /\ rating = NoRating
    /\ auth = NoAuth
    /\ forum = NoForum
    /\ disk = NoDisk

NextDisk ==
    \/ SaveFileNotAllowed
    \/ SaveFileTooLarge
    \/ SaveFileFailed
    \/ SaveFile

SpecDisk == InitDisk /\ [][NextDisk]_vars

(***************************************************************************)
(* Properties of search_materials, checked under Spec.                     *)
(***************************************************************************)
Returned == response.status = "returned"

\* The trimmed search term of the answered request.
Term == Strip(response.query)

\* text contains term as a literal substring, ignoring case.
IsSubstring(text, term) ==
    \E i \in 0..(Len(text) - Len(term)) :
        \A k \in 1..Len(term) : LowerChar(text[i + k]) = LowerChar(term[k])

\* The nullable column holds a text that contains the term literally.
Has(column, term) == column # None /\ IsSubstring(Val(column), term)

\* The four searched fields of a material, in priority order.
Fields(m) == <<Some(m.title), m.description, m.file_name, m.file_content_text>>

FieldNames == <<"title", "description", "filename", "content">>

FieldContexts == <<50, 100, 50, 100>>

FieldWeights == <<10, 5, 3, 1>>

\* The materials of the store that pass the filters of the answered request.
Passing ==
    {m \in materials : /\ TextFilter(m, Term)
                       /\ response.course_id # None
                            => m.course_id = Val(response.course_id)
                       /\ response.material_type # None
                            => m.material_type = Val(response.material_type)}

ReturnedMaterials == {response.results[i].material : i \in DOMAIN response.results}

OnlySpaces(s) == \A i \in DOMAIN s : s[i] = " "

\* C1: a search whose query is empty or only whitespace returns the empty
\* list, whatever the limit, the filters, the sort order and the store.
C1_EmptyQueryReturnsEmptyList ==
    (Returned /\ OnlySpaces(response.query)) => response.results = <<>>

\* C1 witness: a whitespace query answered with [] over a store that holds
\* materials.
C1_Witness ==
    /\ Returned
    /\ response.query = <<" ">>
    /\ materials # {}
    /\ response.sort_by = "rating"
    /\ response.results = <<>>

\* C2: a search returns at most limit results.
C2_AtMostLimitResults ==
    Returned => Len(response.results) <= response.limit

\* C2 witness: more materials pass the filters than the limit allows, and
\* exactly limit of them are returned.
C2_Witness ==
    /\ Returned
    /\ Cardinality(Passing) > response.limit
    /\ Len(response.results) = response.limit

\* C3: every returned material has a field among title, description,
\* file_name and file_content_text that contains the trimmed search term as
\* a literal case-insensitive substring, also when the term holds % or _.
C3_ResultsContainTerm ==
    Returned =>
        \A i \in DOMAIN response.results :
            \E k \in 1..4 : Has(Fields(response.results[i].material)[k], Term)

\* C4: with course_id given (0 included) every result has that course_id,
\* and with material_type given every result has that material_type.
C4_FiltersHold ==
    Returned =>
        \A i \in DOMAIN response.results :
            /\ response.course_id # None =>
                  response.results[i].material.course_id = Val(response.course_id)
            /\ response.material_type # None =>
                  response.results[i].material.material_type
                      = Val(response.material_type)

\* C4 witness: both filters are given, a material is returned, and the
\* store holds a material that matches the term but not the filters.
C4_Witness ==
    /\ Returned
    /\ response.course_id # None
    /\ response.material_type # None
    /\ response.results # <<>>
    /\ \E m \in materials : TextFilter(m, Term) /\ m \notin Passing

\* The sort key the claim C5 states: the weights of the fields that contain
\* the term literally, created_at, or average_rating.
ClaimedScore(m, term) ==
    (IF Has(Fields(m)[1], term) THEN FieldWeights[1] ELSE 0)
    + (IF Has(Fields(m)[2], term) THEN FieldWeights[2] ELSE 0)
    + (IF Has(Fields(m)[3], term) THEN FieldWeights[3] ELSE 0)
    + (IF Has(Fields(m)[4], term) THEN FieldWeights[4] ELSE 0)

ClaimedKey(m, term, sort_by) ==
    CASE sort_by = "date" -> m.created_at
      [] sort_by = "rating" -> m.average_rating
      [] OTHER -> ClaimedScore(m, term)

\* C5: the results are in non-increasing order of the key selected by
\* sort_by: the sum of the weights 10, 5, 3, 1 of the fields that contain the
\* term for relevance, created_at for date, average_rating for rating.
C5_OrderedByClaimedKey ==
    (Returned /\ response.sort_by \in {"relevance", "date", "rating"}) =>
        \A i, j \in DOMAIN response.results :
            i < j => ClaimedKey(response.results[i].material, Term, response.sort_by)
                       >= ClaimedKey(response.results[j].material, Term,
                                     response.sort_by)

\* The material matches the term in a field below the title, and not in
\* the title.
LowerFieldsOnly(m, term) ==
    /\ ~Has(Fields(m)[1], term)
    /\ \E k \in 2..4 : Has(Fields(m)[k], term)

\* C6: under sort_by = relevance a material whose title contains the term
\* never comes after a material that matches only in description, file name
\* or body text, and a result of match_type title never follows a result of
\* match_type description, filename or content.
C6_TitleMatchesFirst ==
    (Returned /\ response.sort_by = "relevance") =>
        \A i, j \in DOMAIN response.results :
            i < j =>
                /\ ~(/\ LowerFieldsOnly(response.results[i].material, Term)
                     /\ Has(Fields(response.results[j].material)[1], Term))
                /\ ~(/\ response.results[i].match_type # "title"
                     /\ response.results[j].match_type = "title")

\* C7: for every result with a field that contains the term, match_type
\* names the first such field in the order title, description, filename,
\* content, and the snippet is generate_snippet of that field with context
\* 50 (title, file name) or 100 (description, body text).
C7_MatchTypeIsFirstMatchingField ==
    Returned =>
        \A i \in DOMAIN response.results :
            LET r == response.results[i]
                f == Fields(r.material)
            IN  \A k \in 1..4 :
                    (Has(f[k], Term) /\ \A j \in 1..(k - 1) : ~Has(f[j], Term))
                    => /\ r.match_type = FieldNames[k]
                       /\ r.snippet
                            = generate_snippet(Val(f[k]), Term, FieldContexts[k])

\* C7 witness: a returned material matches in its title and in its
\* description, and is reported with match_type title.
C7_Witness ==
    /\ Returned
    /\ \E i \in DOMAIN response.results :
           /\ Has(Fields(response.results[i].material)[1], Term)
           /\ Has(Fields(response.results[i].material)[2], Term)
           /\ response.results[i].match_type = "title"

\* C8: the result is the first limit elements of the sorted candidates: the
\* returned materials are distinct materials that pass the filters, there
\* are min(limit, number passing) of them (all of them when at most limit
\* pass), and no passing material left out has a strictly greater sort key
\* than a returned one.
C8_TruncationAfterOrdering ==
    (Returned /\ ~OnlySpaces(response.query)) =>
        /\ ReturnedMaterials \subseteq Passing
        /\ Cardinality(ReturnedMaterials) = Len(response.results)
        /\ Len(response.results) = Min(response.limit, Cardinality(Passing))
        /\ \A m \in Passing \ ReturnedMaterials :
               \A r \in ReturnedMaterials :
                   OrderKey(m, Term, response.sort_by)
                       <= OrderKey(r, Term, response.sort_by)

\* C8 witness: more materials pass than the limit, and one that is left out
\* has a strictly smaller sort key than every returned one.
C8_Witness ==
    /\ Returned
    /\ Cardinality(Passing) > response.limit
    /\ \E m \in Passing \ ReturnedMaterials :
           \A r \in ReturnedMaterials :
               OrderKey(m, Term, response.sort_by)
                   < OrderKey(r, Term, response.sort_by)

(***************************************************************************)
(* Properties of generate_snippet, checked under SpecSnippet.              *)
(***************************************************************************)

\* C9: generate_snippet returns the empty string whenever text or
\* search_term is empty, for every context_length.
C9_EmptyInputEmptySnippet ==
    (snip.pc = "done" /\ (snip.text = <<>> \/ snip.search_term = <<>>))
        => snip.result = <<>>

\* C9 witness: a call with a non-empty text, an empty term and a positive
\* context has returned the empty string.
C9_Witness ==
    /\ snip.pc = "done"
    /\ snip.text # <<>>
    /\ snip.search_term = <<>>
    /\ snip.context_length > 0
    /\ snip.result = <<>>

\* The term occurs in the text at 0-based offset s and nowhere before.
FirstOccurrence(text, term, s) ==
    /\ MatchAt(text, term, s)
    /\ \A t \in 0..(s - 1) : ~MatchAt(text, term, t)

\* C10: when search_term occurs in text, the window is taken around the
\* leftmost case-insensitive occurrence [s, e): it is
\* text[max(0, s - context_length) : min(len(text), e + context_length)],
\* with "..." prepended exactly when it starts after 0 and "..." appended
\* exactly when it ends before len(text).
C10_WindowAroundFirstOccurrence ==
    (/\ snip.pc = "done"
     /\ snip.text # <<>>
     /\ snip.search_term # <<>>) =>
        \A s \in 0..Len(snip.text) :
            FirstOccurrence(snip.text, snip.search_term, s) =>
                LET e == s + Len(snip.search_term)
                    from == Max(0, s - snip.context_length)
                    to == Min(Len(snip.text), e + snip.context_length)
                IN  /\ snip.matched
                    /\ snip.snippet_start = from
                    /\ snip.snippet_end = to
                    /\ snip.snippet
                         = (IF from > 0 THEN Ellipsis ELSE <<>>)
                           \o SubSeq(snip.text, from + 1, to)
                           \o (IF to < Len(snip.text) THEN Ellipsis ELSE <<>>)
                    /\ snip.result
                         = Strip(PatternSub(snip.snippet, snip.search_term))

\* C10 witness: the term occurs twice, and the window around the first
\* occurrence is cut on both sides.
C10_Witness ==
    /\ snip.pc = "done"
    /\ snip.matched
    /\ Cardinality(MatchesFrom(snip.text, snip.search_term, 0)) >= 2
    /\ snip.snippet_start > 0
    /\ snip.snippet_end < Len(snip.text)

\* The call of the example has returned.
QuickBrownFoxReturned ==
    /\ snip.pc = "done"
    /\ snip.text = QuickBrownFox
    /\ snip.search_term = Brown
    /\ snip.context_length = 3

\* C11 as stated: generate_snippet("The quick brown fox", "brown", 3)
\* returns "...ick **brown** fox".
C11_ExampleAsStated ==
    QuickBrownFoxReturned =>
        snip.result = <<".", ".", ".", "i", "c", "k", " ", "*", "*",
                        "b", "r", "o", "w", "n", "*", "*", " ", "f", "o", "x">>

\* C11 amended: generate_snippet("The quick brown fox", "brown", 3) returns
\* "...ck **brown** fo...": three characters on each side of the match
\* [10, 15), that is text[7:18], and an ellipsis on both sides because the
\* window starts after 0 and ends before len(text) = 19.
C11_ExampleWindow ==
    QuickBrownFoxReturned =>
        /\ snip.snippet_start = 7
        /\ snip.snippet_end = 18
        /\ snip.result = <<".", ".", ".", "c", "k", " ", "*", "*",
                           "b", "r", "o", "w", "n", "*", "*", " ", "f", "o",
                           ".", ".", ".">>

\* C11 witness: the call of the example has returned through the match
\* branch.
C11_Witness == QuickBrownFoxReturned /\ snip.matched

\* C12: in the match case the result is the window with every
\* non-overlapping case-insensitive occurrence of search_term wrapped in **
\* markers, between the unchanged "..." ellipses (trimmed): the ellipses
\* are never wrapped or changed, whatever the term, also a term made of or
\* holding "." characters.
C12_HighlightInsideWindowOnly ==
    (snip.pc = "done" /\ snip.matched) =>
        LET window == SubSeq(snip.text, snip.snippet_start + 1, snip.snippet_end)
            before == IF snip.snippet_start > 0 THEN Ellipsis ELSE <<>>
            after == IF snip.snippet_end < Len(snip.text) THEN Ellipsis ELSE <<>>
        IN  snip.result
              = Strip(before \o PatternSub(window, snip.search_term) \o after)

\* A call has returned through the branch of no match.
NoMatchReturned ==
    /\ snip.pc = "done"
    /\ snip.text # <<>>
    /\ snip.search_term # <<>>
    /\ ~snip.matched

Markers == <<"*", "*">>

\* s[i:j] is s without its leading and trailing whitespace.
IsTrimOf(s, i, j) ==
    /\ i <= j
    /\ i = j \/ (~IsSpace(s[i + 1]) /\ ~IsSpace(s[j]))
    /\ \A k \in (1..i) \cup ((j + 1)..Len(s)) : IsSpace(s[k])

\* C13 as stated: when search_term does not occur in a non-empty text, the
\* result is exactly the first 2 * context_length characters of text,
\* followed by "..." exactly when len(text) > 2 * context_length, and it
\* holds no ** marker.
C13_NoMatchExactPrefix ==
    NoMatchReturned =>
        /\ snip.result
             = SubSeq(snip.text, 1, Min(2 * snip.context_length, Len(snip.text)))
               \o (IF Len(snip.text) > 2 * snip.context_length
                   THEN Ellipsis ELSE <<>>)
        /\ MatchesFrom(snip.result, Markers, 0) = {}

\* C13 amended: when search_term does not occur in a non-empty text, the
\* result is the first 2 * context_length characters of text without their
\* leading and trailing whitespace, followed by "..." exactly when
\* len(text) > 2 * context_length, and no ** marker is added to it.
C13_NoMatchTrimmedPrefix ==
    NoMatchReturned =>
        LET prefix == SubSeq(snip.text, 1,
                             Min(2 * snip.context_length, Len(snip.text)))
        IN  /\ \E i, j \in 0..Len(prefix) :
                  /\ IsTrimOf(prefix, i, j)
                  /\ snip.result
                       = SubSeq(prefix, i + 1, j)
                         \o (IF Len(snip.text) > 2 * snip.context_length
                             THEN Ellipsis ELSE <<>>)
            /\ MatchesFrom(snip.text, Markers, 0) = {}
                  => MatchesFrom(snip.result, Markers, 0) = {}

\* C13 witness: a call without a match has returned a cut prefix that lost
\* whitespace on one of its sides.
C13_Witness ==
    /\ NoMatchReturned
    /\ Len(snip.text) > 2 * snip.context_length
    /\ snip.context_length > 0
    /\ \/ IsSpace(snip.text[1])
       \/ IsSpace(snip.text[2 * snip.context_length])

(***************************************************************************)
(* Properties of fix_hebrew_direction, checked under SpecFix.              *)
(***************************************************************************)
FixReturned == fix.pc = "done"

\* C14: for every string with no character in U+0590 .. U+05FF, also one
\* of several lines or with leading, trailing or repeated whitespace,
\* fix_hebrew_direction returns the string itself.
C14_NoHebrewUnchanged ==
    (FixReturned /\ \A k \in 1..Len(fix.text) : fix.text[k] \notin HebrewChars)
        => fix.result = fix.text

\* C14 witness: a call has returned for a text without Hebrew that has a
\* letter, a line break, leading whitespace and two spaces in a row.
C14_Witness ==
    /\ FixReturned
    /\ \E k \in 1..Len(fix.text) : fix.text[k] \in LatinChars
    /\ \A k \in 1..Len(fix.text) : fix.text[k] \notin HebrewChars
    /\ \E k \in 1..Len(fix.text) : fix.text[k] = "\n"
    /\ fix.text[1] \in Whitespace
    /\ \E k \in 1..(Len(fix.text) - 1) : fix.text[k] = " " /\ fix.text[k + 1] = " "

\* The text of the call is one word of Hebrew characters only.
HebrewWord ==
    /\ fix.text # <<>>
    /\ \A k \in 1..Len(fix.text) : fix.text[k] \in HebrewChars

\* C15: for every word w of characters in U+0590 .. U+05FF only,
\* fix_hebrew_direction of the reversed w, as a line of one word, is w:
\* the result is the argument read backwards.
C15_ReversedWordRestored ==
    (FixReturned /\ HebrewWord) =>
        /\ Len(fix.result) = Len(fix.text)
        /\ \A k \in 1..Len(fix.text) :
              fix.result[k] = fix.text[Len(fix.text) + 1 - k]

\* C15 witness: a call has returned for a word of several Hebrew characters
\* that is not a palindrome.
C15_Witness ==
    /\ FixReturned
    /\ HebrewWord
    /\ Len(fix.text) >= 3
    /\ fix.text[1] # fix.text[Len(fix.text)]

\* The whitespace-delimited tokens of a line that hold no Hebrew character.
IsLtrToken(token) == Strip(token) # <<>> /\ ~has_hebrew(token)

LtrTokens(line) == SelectSeq(Tokens(line), IsLtrToken)

Count(line, c) == Cardinality({k \in 1..Len(line) : line[k] = c})

\* C17: fix_hebrew_direction keeps the number of lines, and each output
\* line holds the same characters other than whitespace, each as many
\* times, as the input line at its place.
C17_ContentPreserved ==
    FixReturned =>
        LET lines == SplitLines(fix.text)
            fixed_lines == SplitLines(fix.result)
        IN  /\ Len(fixed_lines) = Len(lines)
            /\ \A k \in 1..Len(lines) :
                  \A c \in HebrewChars \cup LatinChars :
                      Count(fixed_lines[k], c) = Count(lines[k], c)

\* C17 witness: a call has returned for a text of two lines in which a
\* line with two different Hebrew characters came out shorter and in
\* another order.
C17_Witness ==
    /\ FixReturned
    /\ \E k \in 1..Len(fix.text) : fix.text[k] = "\n"
    /\ \A c \in FixLetters : \E k \in 1..Len(fix.text) : fix.text[k] = c
    /\ Len(fix.result) < Len(fix.text)
    /\ \E k \in 1..Len(fix.result) : fix.result[k] # fix.text[k]

(***************************************************************************)
(* Properties of extract_file_text, checked under SpecExtract.             *)
(***************************************************************************)

\* The extension is ".pdf" in some casing.
IsPdfExtension(ext) ==
    /\ Len(ext) = 4
    /\ ext[1] = "."
    /\ ext[2] \in {"p", "P"}
    /\ ext[3] \in {"d", "D"}
    /\ ext[4] \in {"f", "F"}

\* The page gave no text or whitespace only.
BlankPage(page) ==
    page.text = None \/ \A k \in 1..Len(Val(page.text)) : Val(page.text)[k] \in Whitespace

\* One of the failure cases of the call of extract: not a PDF extension, no
\* file, opening or parsing raises, or blank text only on all pages.
ExtractFailure ==
    \/ ~IsPdfExtension(extract.file_extension)
    \/ extract.file.state = "missing"
    \/ extract.file.state = "unreadable"
    \/ \E k \in 1..Len(extract.file.pages) : extract.file.pages[k].raises
    \/ \A k \in 1..Len(extract.file.pages) : BlankPage(extract.file.pages[k])

\* C18: extract_file_text never raises; it returns None in each failure
\* case (extension other than ".pdf" in any casing, missing file, an
\* exception while opening or parsing, only blank text on all pages) and a
\* string in every other case.
C18_ExtractNeverRaises ==
    extract.pc = "done" =>
        /\ ~extract.raised
        /\ (extract.result = None) <=> ExtractFailure

\* C18 witness: a call with the extension ".PDF" has returned the text of a
\* file with a page without text and a page with text.
C18_Witness ==
    /\ extract.pc = "done"
    /\ extract.file_extension = <<".", "P", "D", "F">>
    /\ extract.result # None
    /\ \E k \in 1..Len(extract.file.pages) : BlankPage(extract.file.pages[k])

(***************************************************************************)
(* Properties of the upload of a material, checked under SpecUpload.       *)
(***************************************************************************)

\* The text extract_file_text gives for the file of an upload.
ExtractedText(file) ==
    extract_file_text(file.body, Suffix(file.filename)).value

\* C19: after a PDF was uploaded through upload_material, the stored
\* material holds the extracted, normalized text of the file in
\* file_content_text, and a later search for a term that occurs in that
\* text only returns the material with match_type "content".
C19_UploadedPdfSearchable ==
    \A k \in 1..Len(uploads) :
        (/\ uploads[k].status = "created"
         /\ uploads[k].file # None
         /\ ExtractedText(Val(uploads[k].file)) # None) =>
            LET text == ExtractedText(Val(uploads[k].file))
                row == Val(uploads[k].row)
            IN  /\ \E m \in materials :
                      /\ m.created_at = row.created_at
                      /\ m.file_content_text = text
                /\ (/\ Returned
                    /\ Term # <<>>
                    /\ response.course_id = None
                    /\ response.material_type = None
                    /\ response.limit >= Cardinality(materials)
                    /\ IsSubstring(Val(text), Term)
                    /\ ~IsSubstring(row.title, Term)
                    /\ ~IsSubstring(Val(row.file_name), Term)) =>
                       \E i \in 1..Len(response.results) :
                           /\ response.results[i].material.created_at = row.created_at
                           /\ response.results[i].match_type = "content"

(***************************************************************************)
(* Properties of the search route, checked under Spec.                     *)
(***************************************************************************)

\* The values of the enumeration MaterialType.
MaterialTypeValues ==
    {"summaries", "homework", "lectures", "exercises", "exam_prep",
     "quiz_prep", "quizme"}

\* The sort orders the route documents.
SortByValues == {"relevance", "date", "rating"}

\* C20: a search request (q of at least one character) whose sort_by is not
\* one of relevance, date and rating, or whose material_type is not a
\* value of MaterialType, is answered with a validation error of the 400
\* class, never with a list of results.
C20_InvalidParametersRejected ==
    (/\ response.status # "none"
     /\ response.query # <<>>
     /\ \/ response.sort_by \notin SortByValues
        \/ /\ response.material_type # None
           /\ Val(response.material_type) \notin MaterialTypeValues) =>
        response.status = "rejected"

(***************************************************************************)
(* Properties of searches among uploads, checked under SpecUpload.         *)
(***************************************************************************)

\* C21: search_materials only reads: every step of a search (a step that
\* changes the response) leaves the materials and the log of uploads as
\* they were, also when searches and uploads alternate, and a returned
\* result list is made of stored materials, each with the snippet and
\* match_type that the material and the term determine.
C21_SearchIsReadOnly ==
    [][/\ response' # response => (materials' = materials /\ uploads' = uploads)
       /\ response'.status = "returned" =>
             \A i \in DOMAIN response'.results :
                 /\ response'.results[i].material \in materials'
                 /\ response'.results[i]
                      = SearchResult(response'.results[i].material,
                                     Strip(response'.query))]_vars

\* C21 witness: a search has returned materials of a store that uploads
\* filled, and the store still holds every uploaded material.
C21_Witness ==
    /\ Returned
    /\ response.results # <<>>
    /\ Len(uploads) >= 2
    /\ \A k \in 1..Len(uploads) :
          uploads[k].status = "created" => Val(uploads[k].row) \in materials
    /\ Cardinality(materials) >= 2

(***************************************************************************)
(* Properties of PUT /users/me, checked under SpecProfile.                 *)
(***************************************************************************)

\* C22: PUT /users/me is a partial update: of the profile fields full_name,
\* year_in_degree, department, department_number and bio, exactly those the
\* request carries take the values it gives and every other one keeps its
\* value, in every request of a sequence; a request with year_in_degree
\* only sets year_in_degree and changes nothing else.
C22_PartialUpdate ==
    [][profile' # profile =>
          \A column \in UserColumns :
              profile'.user[column]
                = IF profile'.request[column] # None
                  THEN profile'.request[column]
                  ELSE profile.user[column]]_vars

(***************************************************************************)
(* Properties of the fallback snippet, checked under SpecFallback.         *)
(***************************************************************************)

\* C23: when a returned material has no field that contains the term, its
\* snippet is the description if there is one, else the title, cut to 100
\* characters, with "..." appended exactly when that text was longer than
\* 100 characters.
C23_FallbackSnippetTruncated ==
    Returned =>
        \A i \in DOMAIN response.results :
            LET m == response.results[i].material
                source == IF m.description # None /\ Val(m.description) # <<>>
                          THEN Val(m.description) ELSE m.title
            IN  (\A f \in 1..4 : ~Has(Fields(m)[f], Term)) =>
                    response.results[i].snippet
                      = IF Len(source) > 100
                        THEN SubSeq(source, 1, 100) \o Ellipsis
                        ELSE source

(***************************************************************************)
(* The merge of separated single letters, checked under SpecFix.           *)
(***************************************************************************)

\* The line after the reversal of lines 76-92, before the merges.
ReversedLine(line) == Join(fixed_tokens(line))

\* The character at index k is a Hebrew character with whitespace or an end
\* of the line on each side.
StandAlone(line, k) ==
    /\ k >= 1
    /\ k <= Len(line)
    /\ IsHebrew(line[k])
    /\ (k = 1 \/ IsSpace(line[k - 1]))
    /\ (k = Len(line) \/ IsSpace(line[k + 1]))

\* The space at index i stands between a run of two or more Hebrew
\* characters before it and a stand-alone Hebrew character after it.
SpaceAfterRun(line, i) ==
    /\ i > 2
    /\ i <= Len(line)
    /\ line[i] = " "
    /\ IsHebrew(line[i - 1])
    /\ IsHebrew(line[i - 2])
    /\ StandAlone(line, i + 1)

\* The space at index i stands between a stand-alone Hebrew character
\* before it and a run of two or more Hebrew characters after it.
SpaceBeforeRun(line, i) ==
    /\ i >= 1
    /\ i + 2 <= Len(line)
    /\ line[i] = " "
    /\ IsHebrew(line[i + 1])
    /\ IsHebrew(line[i + 2])
    /\ StandAlone(line, i - 1)

\* line without the characters at the indices in removed.
Without(line, removed) ==
    LET kept[n \in 0..Len(line)] ==
            IF n = 0 THEN <<>>
            ELSE IF n \in removed THEN kept[n - 1]
                 ELSE Append(kept[n - 1], line[n])
    IN  kept[Len(line)]

\* "\u05D4\u05D7\u05DC\u05D8\u05D5\u05EA \u05D1\u05DE\u05E2\u05E8\u05DB\u05D5\u05EA"
SplitLetterFixed ==
    <<"he", "het", "lamed", "tet", "vav", "tav", " ",
      "bet", "mem", "ayin", "resh", "kaf", "vav", "tav">>

\* The example of the claim: the split letter is joined to its word.
SplitLetterJoined ==
    (FixReturned /\ fix.text = SplitLetterText) => fix.result = SplitLetterFixed

VoteRecords(comment_id, vote_type) ==
    {vote \in BagToSet(voting.comment_votes) :
        vote.comment_id = comment_id /\ vote.vote_type = vote_type}

\* The number of rows in records.
RecordCount(records) ==
    BagCardinality([vote \in records |-> CopiesIn(vote, voting.comment_votes)])

\* Each comment has at most one row per user, and its counters are the
\* numbers of its rows of each type.
VoteCountsMatch ==
    \A comment_id \in CommentIds :
        /\ \A user_id \in VoterIds :
              RecordCount(existing_votes(voting.comment_votes, user_id, comment_id)) <= 1
        /\ voting.comments[comment_id].upvotes
             = RecordCount(VoteRecords(comment_id, "upvote"))
        /\ voting.comments[comment_id].downvotes
             = RecordCount(VoteRecords(comment_id, "downvote"))
        /\ voting.comments[comment_id].upvotes >= 0
        /\ voting.comments[comment_id].downvotes >= 0

\* A request that repeats the vote the user has on the comment changes
\* neither table.
RepeatedVoteChangesNothing ==
    BagIn(voting'.request, voting.comment_votes)
        => /\ voting'.comments = voting.comments
           /\ voting'.comment_votes = voting.comment_votes

\* C25: after any sequence of vote_comment requests each comment has at
\* most one vote record per user, upvotes is the number of its records of
\* type 'upvote' and downvotes the number of type 'downvote', neither is
\* negative, and repeating the same vote changes nothing.
C25_VoteCountersMatchRecords ==
    []VoteCountsMatch /\ [][RepeatedVoteChangesNothing]_vars

\* C25 witness: both users have a vote on comment 1, the last request was
\* the downvote of user 1, and the vote of user 2 is an upvote.
C25_Witness ==
    /\ voting.status = 200
    /\ voting.request = CommentVoteModel(1, 1, "downvote")
    /\ voting.comment_votes
         = SetToBag({CommentVoteModel(1, 1, "downvote"), CommentVoteModel(2, 1, "upvote")})
    /\ voting.comments[1] = [upvotes |-> 1, downvotes |-> 1]

(***************************************************************************)
(* Properties of the rating requests, checked under SpecRating.            *)
(***************************************************************************)

\* No rating request is in progress.
NoRatingRequestInProgress ==
    \A user_id \in RaterIds : rating.requests[user_id].pc = "idle"

\* C26: whenever no rating request is in progress, after any rate_material,
\* update_rating and delete_rating requests in any order and interleaving,
\* rating_count of the material is the number of its stored ratings and
\* average_rating is their mean, 0 when there is none.
C26_RatingAggregateMatches ==
    NoRatingRequestInProgress =>
        rating.material = updated_material(rating_aggregate(rating.ratings))

(***************************************************************************)
(* Properties of the authentication routes, checked under SpecAuth.        *)
(***************************************************************************)

\* C27: in every state reachable through register, login, verify-email,
\* resend-verification, forgot-password and reset-password, an active user
\* is a verified user, a verified user is one for whom verify_email has
\* succeeded, and a login that succeeded is of such a user: a registered
\* user cannot log in before verifying the email.
C27_NoLoginBeforeVerification ==
    /\ \A username \in Usernames :
          auth.users[username] # None =>
              /\ Val(auth.users[username]).is_active
                    => Val(auth.users[username]).is_email_verified
              /\ Val(auth.users[username]).is_email_verified
                    => username \in auth.verified
    /\ (auth.request.op = "login" /\ auth.request.status = 200)
          => auth.request.username \in auth.verified

\* C27 witness: a login has succeeded for a verified user, with a password
\* set by reset_password.
C27_Witness ==
    /\ auth.request.op = "login"
    /\ auth.request.status = 200
    /\ auth.request.username \in auth.verified
    /\ Val(auth.users[auth.request.username]).hashed_password = "q"
    /\ Cardinality(auth.used_tokens) = 2

\* The step is a call of verify_email or reset_password.
TokenCall ==
    \/ VerifyEmailRefused
    \/ VerifyEmail
    \/ ResetPasswordRefused
    \/ ResetPassword

\* C30: after verify_email or reset_password has succeeded with a token,
\* every later call of either with the same token is answered 400 and
\* changes no user.
C30_TokensSingleUse ==
    [][(TokenCall /\ auth'.request.token \in auth.used_tokens)
          => /\ auth'.request.status = 400
             /\ auth'.users = auth.users]_vars

\* C30 witness: reset_password has been refused for a token with which it
\* had succeeded, and verify_email has succeeded with another token.
C30_Witness ==
    /\ auth.request.op = "reset_password"
    /\ auth.request.status = 400
    /\ auth.request.token \in auth.used_tokens
    /\ Cardinality(auth.used_tokens) >= 2
    /\ \E username \in Usernames :
          /\ auth.users[username] # None
          /\ Val(auth.users[username]).hashed_password = "q"
          /\ Val(auth.users[username]).is_email_verified

(***************************************************************************)
(* Properties of materials and discussions, checked under SpecForum.       *)
(***************************************************************************)

\* Each material has exactly one discussion with its id as material_id.
EveryMaterialHasOneDiscussion ==
    \A m \in forum.materials :
        Cardinality(discussions_of(forum.discussions, m.id)) = 1

\* GET /materials/{id}/discussion is not answered 404 for a material that
\* exists.
ExistingMaterialNever404 ==
    (GetMaterialDiscussion /\ \E m \in forum.materials : m.id = forum'.request.id)
        => forum'.request.status # 404

\* C28: after any sequence of material creations, discussion updates and
\* deletions and material deletions, each existing material has exactly
\* one discussion with material_id equal to its id, so that
\* GET /materials/{id}/discussion never answers 404 for an existing
\* material.
C28_EveryMaterialHasDiscussion ==
    []EveryMaterialHasOneDiscussion /\ [][ExistingMaterialNever404]_vars

(***************************************************************************)
(* Properties of save_file, checked under SpecDisk.                        *)
(***************************************************************************)

\* C29: save_file rejects a file of an allowed type whose size exceeds
\* MAX_FILE_SIZE with HTTP 400, the status of a disallowed extension, and
\* after the rejection no file of that upload is in the upload directory.
C29_TooLargeRejectedWith400 ==
    (/\ disk.call.status # 0
     /\ Lower(Suffix(disk.call.filename)) \in ALLOWED_EXTENSIONS
     /\ disk.call.file_size > MAX_FILE_SIZE)
        => /\ disk.call.status = 400
           /\ disk.call.unique_filename \notin disk.files

====
